---- MODULE Spec2Model ----
(***************************************************************************)
(* A model of the transform-and-quality-control engine of the NCRN         *)
(* discrete water monitoring ETL (src/src/transform.py, src/src/utils.py). *)
(*                                                                         *)
(* A table (pandas DataFrame) is a sequence of rows; a row is a function   *)
(* from column names to values.  Every cell value is a string; the missing *)
(* value (None / NaN) is the reserved string NULL.  Each function of the   *)
(* pipeline is an operator on tables, and each specification drives the    *)
(* operators it is about from a bounded set of input tables.               *)
(***************************************************************************)
EXTENDS Integers, Sequences, FiniteSets, TLC

VARIABLES
    tbl_main,         \* header relation (df_dict['tbl_main']['df'])
    tbl_ysi,          \* instrument-increment relation
    tbl_grabsample,   \* lab-sample relation
    res,              \* the instrument-history log read by _make_instrument_column
    include_deletes,  \* parameter of _transform
    run,              \* which entry point runs: "dashboard" or "exchange"
    df,               \* the working table threaded through the stages
    pc,               \* position of the running function
    aux,              \* loop state / diagnostics of the running function
    example,          \* the columns of the exchange-schema template file
    test_run,         \* parameter of wqp_wqx: compute but do not write
    wqp,              \* the exchange table that wqp_wqx builds
    written           \* the files written so far

vars == <<tbl_main, tbl_ysi, tbl_grabsample, res, include_deletes, run, df, pc, aux,
          example, test_run, wqp, written>>

inputs == <<tbl_main, tbl_ysi, tbl_grabsample, res, include_deletes, run, example, test_run>>

outputs == <<wqp, written>>

\* the state of the exchange projection in a specification that does not reach it
NoExchange == example = <<>> /\ test_run = TRUE /\ wqp = <<>> /\ written = <<>>

(***************************************************************************)
(* Values and tables                                                       *)
(***************************************************************************)
NULL == "NULL"

Range(s) == {s[i] : i \in DOMAIN s}

MapSeq(s, F(_)) == [i \in 1..Len(s) |-> F(s[i])]

With(r, c, v) == [k \in DOMAIN r \cup {c} |-> IF k = c THEN v ELSE r[k]]

Get(r, c) == IF c \in DOMAIN r THEN r[c] ELSE NULL

\* order of first appearance (pandas Series.unique())
RECURSIVE Unique(_)
Unique(s) ==
    IF s = <<>> THEN <<>>
    ELSE <<Head(s)>> \o SelectSeq(Unique(Tail(s)), LAMBDA x : x # Head(s))

\* concatenation of a sequence of sequences
RECURSIVE Flatten(_)
Flatten(ss) == IF ss = <<>> THEN <<>> ELSE Head(ss) \o Flatten(Tail(ss))

Last(s) == s[Len(s)]

\* str.contains(sub) / `sub in s`
Contains(s, sub) ==
    \E i \in 1..(Len(s) - Len(sub) + 1) : SubSeq(s, i, i + Len(sub) - 1) = sub

LowerCase ==
    [A |-> "a", B |-> "b", C |-> "c", D |-> "d", E |-> "e", F |-> "f", G |-> "g",
     H |-> "h", I |-> "i", J |-> "j", K |-> "k", L |-> "l", M |-> "m", N |-> "n",
     O |-> "o", P |-> "p", Q |-> "q", R |-> "r", S |-> "s", T |-> "t", U |-> "u",
     V |-> "v", W |-> "w", X |-> "x", Y |-> "y", Z |-> "z"]

LowerChar(c) == IF c \in DOMAIN LowerCase THEN LowerCase[c] ELSE c

\* str.lower()
RECURSIVE Lower(_)
Lower(s) ==
    IF Len(s) = 0 THEN ""
    ELSE LowerChar(SubSeq(s, 1, 1)) \o Lower(SubSeq(s, 2, Len(s)))

\* pandas string concatenation: any missing operand gives a missing result
Concat(a, b) == IF a = NULL \/ b = NULL THEN NULL ELSE a \o b

(***************************************************************************)
(* _assign_activity_id (transform.py 480-542)                              *)
(***************************************************************************)
LOOKUP == <<"NCRN_WQ_HABINV", "NCRN_WQ_WQUANTITY", "NCRN_WQ_WQUALITY", "NCRN_WQ_WCHEM">>

GroupingVarsOf(d) == {d[i]["grouping_var"] : i \in DOMAIN d}

MissingGroupingVar(d) == \E i \in DOMAIN d : d[i]["grouping_var"] = NULL

MissingActivityGroupId(d) == \E i \in DOMAIN d : d[i]["activity_group_id"] = NULL

UnknownGroupingVarsMutant(d) == {}

UnknownGroupingVars(d) == GroupingVarsOf(d) \ Range(LOOKUP)

AbsentGroupingVars(d) == Range(LOOKUP) \ GroupingVarsOf(d)

ActBase(r) == Concat(Concat(r["activity_group_id"], "|"), r["grouping_var"])

ActHabinv(r, prev) ==
    IF r["grouping_var"] = "NCRN_WQ_HABINV" THEN ActBase(r) ELSE prev

ActWquantity(r, prev) ==
    IF r["grouping_var"] = "NCRN_WQ_WQUANTITY" /\ r["discharge_instrument"] # NULL
    THEN Concat(Concat(ActBase(r), "|"), r["discharge_instrument"])
    ELSE prev

ActWqualityMutant(r, prev) ==
    IF /\ r["grouping_var"] = "NCRN_WQ_WQUALITY"
       /\ r["ysi_probe"] # NULL
       /\ r["ysi_increment"] # NULL
    THEN Concat(Concat(Concat(Concat(ActBase(r), "|"), r["ysi_probe"]), "|"), r["ysi_increment"])
    ELSE prev

ActWquality(r, prev) ==
    IF /\ r["grouping_var"] = "NCRN_WQ_WQUALITY"
       /\ r["sampleability"] = "Actively Sampled"
       /\ r["ysi_probe"] # NULL
       /\ r["ysi_increment"] # NULL
    THEN Concat(Concat(Concat(Concat(ActBase(r), "|"), r["ysi_probe"]), "|"), r["ysi_increment"])
    ELSE prev

ActWchemMutant(r, prev) ==
    IF /\ r["grouping_var"] = "NCRN_WQ_WCHEM"
       /\ r["sampleability"] = "Actively Sampled"
       /\ r["lab"] # NULL
    THEN Concat(Concat(Concat(ActBase(r), "|"), r["lab"]), r["Characteristic_Name"])
    ELSE prev

ActWchem(r, prev) ==
    IF /\ r["grouping_var"] = "NCRN_WQ_WCHEM"
       /\ r["sampleability"] = "Actively Sampled"
       /\ r["lab"] # NULL
    THEN Concat(Concat(ActBase(r), "|"), r["lab"])
    ELSE prev

\* the five np.where assignments of lines 518-530, in order, for one row
ActivityIdOf(r) ==
    ActWchem(r, ActWquality(r, ActWquantity(r, ActHabinv(r, ActBase(r)))))

ActAssigned(d) == MapSeq(d, LAMBDA r : With(r, "activity_id", ActivityIdOf(r)))

\* the asserts of _assign_activity_id in the order the code evaluates them;
\* "ok" when none fires
ActStatus(d) ==
    IF MissingGroupingVar(d) THEN "no_grouping_var"
    ELSE IF MissingActivityGroupId(d) THEN "no_activity_group_id"
    ELSE IF UnknownGroupingVars(d) # {} THEN "unknown_grouping_var"
    ELSE IF AbsentGroupingVars(d) # {} THEN "absent_grouping_var"
    ELSE IF \E i \in DOMAIN d : ActivityIdOf(d[i]) = NULL THEN "null_activity_id"
    ELSE "ok"

(***************************************************************************)
(* _make_instrument_column (transform.py 348-477)                          *)
(*                                                                         *)
(* activity_start_date ('YYYY-MM-DD') is the integer yyyymmdd; a history   *)
(* log 'Sample Date' ('YYYY-MM-DD HH:MM:SS') is the pair <<yyyymmdd, HH>>; *)
(* a datetime is the integer yyyymmddHH.  For zero-padded text the order   *)
(* of the strings is the order of these numbers.                           *)
(***************************************************************************)
\* pd.to_datetime of a date-only string: midnight of that day
ToDatetime(d) == d * 100

\* dt.datetime.strptime(s, '%Y-%m-%d %H:%M:%S')
Strptime(sd) == sd[1] * 100 + sd[2]

\* <= on 'YYYY-MM-DD HH:MM:SS' strings
StrLeq(a, b) == a[1] < b[1] \/ (a[1] = b[1] /\ a[2] <= b[2])

\* min() / max() of a collection of strings
StrMin(S) == CHOOSE x \in S : \A y \in S : StrLeq(x, y)

StrMax(S) == CHOOSE x \in S : \A y \in S : StrLeq(y, x)

IntMin(S) == CHOOSE x \in S : \A y \in S : x <= y

IntMax(S) == CHOOSE x \in S : \A y \in S : y <= x

Params(log) == Unique(MapSeq(log, LAMBDA e : e["Parameter"]))

MethodsOf(log, p) ==
    Unique(MapSeq(SelectSeq(log, LAMBDA e : e["Parameter"] = p), LAMBDA e : e["Method"]))

SampleDates(log, p, m) ==
    {log[i]["Sample_Date"] : i \in {j \in DOMAIN log : log[j]["Parameter"] = p /\ log[j]["Method"] = m}}

Rule(kind, param, method, hasLo, lo, hasHi, hi) ==
    [kind |-> kind, param |-> param, method |-> method,
     hasLo |-> hasLo, lo |-> lo, hasHi |-> hasHi, hi |-> hi]

\* lines 372-385: the (parameter, method) windows with maxdate - mindate > 0,
\* in dictionary order (parameters, then methods, by first appearance)
HistoryWindows(log) ==
    Flatten(MapSeq(Params(log), LAMBDA p :
        LET all == MapSeq(MethodsOf(log, p), LAMBDA m :
                       Rule("window", Lower(p), m,
                            TRUE, Strptime(StrMin(SampleDates(log, p, m))),
                            TRUE, Strptime(StrMax(SampleDates(log, p, m)))))
        IN  SelectSeq(all, LAMBDA w : w.hi - w.lo > 0)))

CutoverDate == 2024040100

\* lines 397-410 with the commented-out min() of line 405 in place of max()
OpenEndedRulesMutant(log) ==
    Flatten(MapSeq(Params(log), LAMBDA p :
        LET all == MapSeq(MethodsOf(log, p), LAMBDA m :
                       Rule("open", Lower(p), m,
                            TRUE, Strptime(StrMin(SampleDates(log, p, m))),
                            FALSE, 0))
        IN  SelectSeq(all, LAMBDA w : w.lo > CutoverDate)))

\* lines 397-410: `mindate` is read with max(); kept when after the cutover
OpenEndedRules(log) ==
    Flatten(MapSeq(Params(log), LAMBDA p :
        LET all == MapSeq(MethodsOf(log, p), LAMBDA m :
                       Rule("open", Lower(p), m,
                            TRUE, Strptime(StrMax(SampleDates(log, p, m))),
                            FALSE, 0))
        IN  SelectSeq(all, LAMBDA w : w.lo > CutoverDate)))

HardCodedParams == <<"anc", "tp", "ammonia", "nitrate", "tn", "orthophosphate", "tdn", "tdp">>

\* activity_start_date values of the rows of characteristic c with a result
ResultDates(d, c) ==
    {d[i]["activity_start_date"] :
        i \in {j \in DOMAIN d : d[j]["Characteristic_Name"] = c /\ d[j]["num_result"] # NULL}}

\* the min()/max() calls of lines 434-441 raise ValueError on an empty sequence
HardCodedFails(d, log) ==
    \/ log = <<>>
    \/ ResultDates(d, "tp") = {}
    \/ ResultDates(d, "orthophosphate") = {}
    \/ ResultDates(d, "ammonia") = {}

NitrateSwitch == 2008010100

\* lines 421-441, in the iteration order of lines 447-448
HardCodedRules(d, log) ==
    LET basecase_date == Strptime(StrMin({log[i]["Sample_Date"] : i \in DOMAIN log}))
    IN  << Rule("hard", "anc", "Hach 8203", FALSE, 0, TRUE, basecase_date),
           Rule("hard", "tp", "Hach 8190 and 8178",
                FALSE, 0, TRUE, ToDatetime(IntMin(ResultDates(d, "tp")))),
           Rule("hard", "tp", "Hach 8190",
                TRUE, ToDatetime(IntMin(ResultDates(d, "tp"))), TRUE, basecase_date),
           Rule("hard", "ammonia", "Hach TNT830",
                TRUE, ToDatetime(IntMin(ResultDates(d, "ammonia"))),
                TRUE, ToDatetime(IntMax(ResultDates(d, "ammonia")))),
           Rule("hard", "nitrate", "Hach 8039, 8171, and 8192", FALSE, 0, TRUE, NitrateSwitch),
           Rule("hard", "nitrate", "Hach 10020", TRUE, NitrateSwitch, FALSE, 0),
           Rule("hard", "orthophosphate", "Hach 8048",
                TRUE, ToDatetime(IntMin(ResultDates(d, "orthophosphate"))),
                TRUE, ToDatetime(IntMax(ResultDates(d, "orthophosphate")))) >>

\* the date masks of lines 389, 414, 450-458
RuleMatchesMutant(rule, r) ==
    /\ r["Characteristic_Name"] = rule.param
    /\ rule.hasLo => ToDatetime(r["activity_start_date"]) > rule.lo
    /\ rule.hasHi => ToDatetime(r["activity_start_date"]) <= rule.hi

RuleMatches(rule, r) ==
    /\ r["Characteristic_Name"] = rule.param
    /\ rule.hasLo => ToDatetime(r["activity_start_date"]) >= rule.lo
    /\ rule.hasHi => ToDatetime(r["activity_start_date"]) <= rule.hi

\* df['instrument'] = np.where(mask, method, df['instrument'])
ApplyRule(d, rule) ==
    MapSeq(d, LAMBDA r : IF RuleMatches(rule, r) THEN With(r, "instrument", rule.method) ELSE r)

RECURSIVE ApplyRules(_, _)
ApplyRules(d, rules) ==
    IF rules = <<>> THEN d ELSE ApplyRules(ApplyRule(d, Head(rules)), Tail(rules))

\* lines 363-365
InstrumentBase(d) ==
    MapSeq(d, LAMBDA r : With(r, "instrument",
        IF r["grouping_var"] = "NCRN_WQ_WQUANTITY" THEN r["discharge_instrument"]
        ELSE r["ysi_probe"]))

\* lines 464-465 left out: the recorded method overrides nothing
AncMethodOverrideMutant(d) == d

\* lines 464-465
AncMethodOverride(d) ==
    MapSeq(d, LAMBDA r :
        IF r["anc_method"] # NULL /\ r["Characteristic_Name"] = "anc"
        THEN With(r, "instrument", r["anc_method"]) ELSE r)

\* lines 466-467
AncCueDefault(d) ==
    MapSeq(d, LAMBDA r :
        IF r["anc_method"] = NULL /\ r["Characteristic_Name"] = "anc" /\ r["lab"] = "CUE"
        THEN With(r, "instrument", "Hach 8203") ELSE r)

\* lines 469-471: the mask is built from the variables the loop of lines
\* 447-460 left behind: paramlower is the last key of the dictionary, method
\* and dates are those of the last rule applied
LeftoverRule(d, log) ==
    LET last == Last(HardCodedRules(d, log))
    IN  Rule("leftover", Last(HardCodedParams), last.method, TRUE, last.lo, TRUE, last.hi)

CleanUp(d, log) ==
    ApplyRule(AncCueDefault(AncMethodOverride(d)), LeftoverRule(d, log))

\* the whole function on a table it does not fail on
InstrumentColumn(d, log) ==
    CleanUp(ApplyRules(InstrumentBase(d),
                       HistoryWindows(log) \o OpenEndedRules(log) \o HardCodedRules(d, log)),
            log)


(***************************************************************************)
(* SpecAct: _assign_activity_id applied to bounded tables.  A table is one *)
(* well-formed row for each category of a chosen subset, followed by one   *)
(* row whose every field is drawn freely.                                  *)
(***************************************************************************)
NumGroups == 1

GroupIds == {"G" \o ToString(i) : i \in 1..NumGroups}

Sampleabilities == {"Actively Sampled", "Visited - Not Sampled", NULL}

ActRows ==
    [activity_group_id : GroupIds \cup {NULL},
     grouping_var : Range(LOOKUP) \cup {NULL, "NCRN_WQ_BSS"},
     discharge_instrument : {NULL, "flowtracker"},
     sampleability : Sampleabilities,
     ysi_probe : {NULL, "ysi_a"},
     ysi_increment : {NULL, "inc1"},
     lab : {NULL, "AL"}]

WellFormedRow(cat) ==
    [activity_group_id |-> "G1",
     grouping_var |-> cat,
     discharge_instrument |-> IF cat = "NCRN_WQ_WQUANTITY" THEN "flowtracker" ELSE NULL,
     sampleability |-> "Actively Sampled",
     ysi_probe |-> IF cat = "NCRN_WQ_WQUALITY" THEN "ysi_a" ELSE NULL,
     ysi_increment |-> IF cat = "NCRN_WQ_WQUALITY" THEN "inc1" ELSE NULL,
     lab |-> IF cat = "NCRN_WQ_WCHEM" THEN "AL" ELSE NULL]

WellFormedRows(cats) ==
    LET idx == SelectSeq(LOOKUP, LAMBDA c : c \in cats)
    IN  MapSeq(idx, WellFormedRow)

Idle ==
    /\ tbl_main = <<>>
    /\ tbl_ysi = <<>>
    /\ tbl_grabsample = <<>>
    /\ res = <<>>
    /\ include_deletes = FALSE
    /\ run = "none"

InitAct ==
    /\ NoExchange
    /\ Idle
    /\ \E cats \in SUBSET Range(LOOKUP), r \in ActRows :
          df = Append(WellFormedRows(cats), r)
    /\ pc = "act_ready"
    /\ aux = "none"

AssignActivityId ==
    /\ pc = "act_ready"
    /\ aux' = ActStatus(df)
    /\ pc' = IF ActStatus(df) = "ok" THEN "act_done" ELSE "act_abort"
    /\ df' = IF ActStatus(df) = "ok" THEN ActAssigned(df) ELSE df
    /\ UNCHANGED <<inputs, outputs>>

NextAct == AssignActivityId

SpecAct == InitAct /\ [][NextAct]_vars

\* C3: after _assign_activity_id every row carries the base id
\* activity_group_id|grouping_category, refined to base|discharge_instrument
\* for a flow-quantity row with a discharge instrument, to
\* base|probe|increment for an actively sampled water-quality row with probe
\* and increment, to base|lab for an actively sampled lab-chemistry row with
\* a lab, and left as the base id in every other case.
C3_Expected(r) ==
    LET base == r["activity_group_id"] \o "|" \o r["grouping_var"]
    IN  IF r["grouping_var"] = "NCRN_WQ_WQUANTITY" /\ r["discharge_instrument"] # NULL
        THEN base \o "|" \o r["discharge_instrument"]
        ELSE IF /\ r["grouping_var"] = "NCRN_WQ_WQUALITY"
                /\ r["sampleability"] = "Actively Sampled"
                /\ r["ysi_probe"] # NULL /\ r["ysi_increment"] # NULL
        THEN base \o "|" \o r["ysi_probe"] \o "|" \o r["ysi_increment"]
        ELSE IF /\ r["grouping_var"] = "NCRN_WQ_WCHEM"
                /\ r["sampleability"] = "Actively Sampled"
                /\ r["lab"] # NULL
        THEN base \o "|" \o r["lab"]
        ELSE base

C3_ActivityIdCases ==
    pc = "act_done" => \A i \in DOMAIN df : df[i]["activity_id"] = C3_Expected(df[i])

C3_Witness ==
    /\ pc = "act_done"
    /\ \E i \in DOMAIN df : df[i]["activity_id"] = "G1|NCRN_WQ_WQUALITY|ysi_a|inc1"
    /\ \E i \in DOMAIN df : df[i]["activity_id"] = "G1|NCRN_WQ_WQUANTITY|flowtracker"
    /\ \E i \in DOMAIN df :
          /\ df[i]["grouping_var"] = "NCRN_WQ_WCHEM"
          /\ df[i]["lab"] = "AL"
          /\ df[i]["sampleability"] = "Visited - Not Sampled"
          /\ df[i]["activity_id"] = "G1|NCRN_WQ_WCHEM"

\* C4: _assign_activity_id aborts whenever a row has a null grouping
\* category, a grouping category outside the four known ones or a null
\* activity_group_id, and it never returns a table holding a null activity_id.
C4_PreconditionViolated ==
    \E i \in DOMAIN df :
        \/ df[i]["grouping_var"] = NULL
        \/ df[i]["grouping_var"] \notin Range(LOOKUP)
        \/ df[i]["activity_group_id"] = NULL

C4_AbortsOnViolation ==
    /\ (pc \in {"act_done", "act_abort"} /\ C4_PreconditionViolated) => pc = "act_abort"
    /\ pc = "act_done" => \A i \in DOMAIN df : df[i]["activity_id"] # NULL
    /\ pc = "act_abort" => \A i \in DOMAIN df : "activity_id" \notin DOMAIN df[i]

C4_Witness ==
    /\ pc = "act_abort"
    /\ aux = "unknown_grouping_var"
    /\ \A c \in Range(LOOKUP) : c \in GroupingVarsOf(df)

(***************************************************************************)
(* SpecInstr: _make_instrument_column on bounded tables and history logs.  *)
(* The table holds one row with a result for each of tp, orthophosphate    *)
(* (two dates) and ammonia, followed by one freely drawn row.  The log is  *)
(* built from at most MaxSpans usage spans: a (parameter, method) pair     *)
(* with its first and last sample.  An anc row carries an anc_method only  *)
(* with lab CUE, as lines 749-750 leave it.                                *)
(***************************************************************************)
MaxSpans == 2

InstrRow(c, date, num, anc_method, lab) ==
    [Characteristic_Name |-> c,
     activity_start_date |-> date,
     grouping_var |-> IF c = "ph" THEN "NCRN_WQ_WQUALITY"
                      ELSE IF c = "discharge" THEN "NCRN_WQ_WQUANTITY"
                      ELSE "NCRN_WQ_WCHEM",
     discharge_instrument |-> IF c = "discharge" THEN "flowtracker" ELSE NULL,
     ysi_probe |-> IF c = "ph" THEN "ysi_a" ELSE NULL,
     anc_method |-> anc_method,
     lab |-> lab,
     num_result |-> num]

InstrFixedRows ==
    << InstrRow("tp", 20100315, "0.02", NULL, "CUE"),
       InstrRow("orthophosphate", 20200609, "0.01", NULL, "AL"),
       InstrRow("orthophosphate", 20240501, "0.01", NULL, "AL"),
       InstrRow("ammonia", 20100315, "0.1", NULL, "CUE") >>

InstrFreeRows ==
    {InstrRow("tdp", d, "0.03", NULL, "AL") :
        d \in {20161005, 20200609, 20200610, 20200611, 20240501, 20240502, 20240601}}
    \cup {InstrRow("anc", d, "120", NULL, l) : d \in {20100315, 20200610}, l \in {"CUE", "AL"}}
    \cup {InstrRow("anc", d, "120", "usgs_f3_gran", "CUE") : d \in {20100315, 20200610}}
    \cup {InstrRow("tp", d, n, NULL, "AL") : d \in {20071231, 20200610}, n \in {NULL, "0.02"}}
    \cup {InstrRow("nitrate", d, "1.1", NULL, "AL") : d \in {20071231, 20080101, 20200610}}
    \cup {InstrRow("ph", 20200610, "7.1", NULL, NULL),
          InstrRow("discharge", 20200610, "3.5", NULL, NULL)}

InstrMethods == {<<"TDP", "EPA 365.1">>, <<"TDP", "APHA 4500-P J">>}

InstrStamps == {<<20161005, 9>>, <<20200610, 0>>, <<20240501, 0>>, <<20240601, 0>>}

LogEntry(pm, sd) == [Parameter |-> pm[1], Method |-> pm[2], Sample_Date |-> sd]

\* the second method is drawn with the coarser stamps only
StampsOf(pm) ==
    IF pm[2] = "EPA 365.1" THEN InstrStamps ELSE {<<20200610, 0>>, <<20240601, 0>>}

Spans ==
    {sp \in [pm : InstrMethods, first : InstrStamps, last : InstrStamps] :
        /\ StrLeq(sp.first, sp.last)
        /\ {sp.first, sp.last} \subseteq StampsOf(sp.pm)}

SpanLog(sp) ==
    IF sp.first = sp.last THEN <<LogEntry(sp.pm, sp.first)>>
    ELSE <<LogEntry(sp.pm, sp.first), LogEntry(sp.pm, sp.last)>>

Logs == {Flatten(MapSeq(q, SpanLog)) : q \in UNION {[1..n -> Spans] : n \in 0..MaxSpans}}

InitInstr ==
    /\ NoExchange
    /\ tbl_main = <<>>
    /\ tbl_ysi = <<>>
    /\ tbl_grabsample = <<>>
    /\ include_deletes = FALSE
    /\ run = "none"
    /\ res \in Logs
    /\ \E r \in InstrFreeRows : df = Append(InstrFixedRows, r)
    /\ pc = "instr_ready"
    /\ aux = <<>>

\* lines 363-385: the base column, and the dictionary of history windows
InstrBase ==
    /\ pc = "instr_ready"
    /\ df' = InstrumentBase(df)
    /\ aux' = HistoryWindows(res)
    /\ pc' = "instr_windows"
    /\ UNCHANGED <<inputs, outputs>>

\* lines 387-391: one iteration of the loop over the history windows
InstrApplyWindow ==
    /\ pc = "instr_windows"
    /\ aux # <<>>
    /\ df' = ApplyRule(df, Head(aux))
    /\ aux' = Tail(aux)
    /\ UNCHANGED <<pc, inputs, outputs>>

\* lines 396-416
InstrOpenEnded ==
    /\ pc = "instr_windows"
    /\ aux = <<>>
    /\ df' = ApplyRules(df, OpenEndedRules(res))
    /\ pc' = "instr_open"
    /\ UNCHANGED <<aux, inputs, outputs>>

\* lines 419-460
InstrHardCoded ==
    /\ pc = "instr_open"
    /\ IF HardCodedFails(df, res)
       THEN pc' = "instr_abort" /\ df' = df
       ELSE pc' = "instr_hard" /\ df' = ApplyRules(df, HardCodedRules(df, res))
    /\ UNCHANGED <<aux, inputs, outputs>>

\* lines 463-477
InstrCleanUp ==
    /\ pc = "instr_hard"
    /\ df' = CleanUp(df, res)
    /\ pc' = "instr_done"
    /\ UNCHANGED <<aux, inputs, outputs>>

NextInstr ==
    \/ InstrBase
    \/ InstrApplyWindow
    \/ InstrOpenEnded
    \/ InstrHardCoded
    \/ InstrCleanUp

SpecInstr == InitInstr /\ [][NextInstr]_vars

\* C9: when a history window is applied, a triple of the window's
\* characteristic dated exactly on the window's min-date or max-date (the
\* earliest and latest sample timestamps of that characteristic and method in
\* the log) is assigned the window's method, and a triple dated one day before
\* the min-date or one day after the max-date is left as it was.
C9_Stamps(c, m) ==
    {Strptime(res[i]["Sample_Date"]) :
        i \in {j \in DOMAIN res : Lower(res[j]["Parameter"]) = c /\ res[j]["Method"] = m}}

C10_DateRules == HistoryWindows(res) \o OpenEndedRules(res) \o HardCodedRules(df, res)

C10_Matching(r) == {i \in DOMAIN C10_DateRules : RuleMatches(C10_DateRules[i], r)}

C10_Expected(r) ==
    IF r["Characteristic_Name"] = "anc" /\ r["anc_method"] # NULL THEN r["anc_method"]
    ELSE IF r["Characteristic_Name"] = "anc" /\ r["lab"] = "CUE" THEN "Hach 8203"
    ELSE IF C10_Matching(r) # {} THEN C10_DateRules[IntMax(C10_Matching(r))].method
    ELSE IF r["grouping_var"] = "NCRN_WQ_WQUANTITY" THEN r["discharge_instrument"]
    ELSE r["ysi_probe"]

C10_LastRuleWins ==
    pc = "instr_done" => \A i \in DOMAIN df : df[i]["instrument"] = C10_Expected(df[i])

\* C11 (as the code has it): in the open-ended step a (characteristic,
\* method) pair is open-ended exactly when its latest-observed timestamp in the
\* history log is after the cutover 2024-04-01 00:00; a triple of that
\* characteristic dated on or after that latest timestamp is assigned the
\* method of such a pair, and a triple no open-ended pair covers keeps its
\* instrument.
C11_Pairs == {<<Lower(res[i]["Parameter"]), res[i]["Method"]>> : i \in DOMAIN res}

C11_Earliest(pm) == IntMin(C9_Stamps(pm[1], pm[2]))

C11_Latest(pm) == IntMax(C9_Stamps(pm[1], pm[2]))

C11_Covers(pm, r, bound) ==
    r["Characteristic_Name"] = pm[1] /\ ToDatetime(r["activity_start_date"]) >= bound

C11_OpenStep == pc = "instr_windows" /\ aux = <<>> /\ pc' = "instr_open"

C11_OpenEndedByLatest ==
    [][C11_OpenStep =>
        \A i \in DOMAIN df :
            LET M == {pm \in C11_Pairs :
                        /\ C11_Latest(pm) > CutoverDate
                        /\ C11_Covers(pm, df[i], C11_Latest(pm))}
            IN  IF M = {} THEN df'[i]["instrument"] = df[i]["instrument"]
                ELSE df'[i]["instrument"] \in {pm[2] : pm \in M}
      ]_vars

\* C11 (as stated): the pair is open-ended exactly when its earliest-observed
\* timestamp is after the cutover, and it is assigned to every triple of the
\* characteristic dated on or after that earliest timestamp.
C11_OpenEndedByEarliest ==
    [][C11_OpenStep =>
        \A i \in DOMAIN df :
            LET M == {pm \in C11_Pairs :
                        /\ C11_Earliest(pm) > CutoverDate
                        /\ C11_Covers(pm, df[i], C11_Earliest(pm))}
            IN  IF M = {} THEN df'[i]["instrument"] = df[i]["instrument"]
                ELSE df'[i]["instrument"] \in {pm[2] : pm \in M}
      ]_vars

\* a method first seen in 2020 and last seen after the cutover has been
\* extended to a triple dated after its last sample
C11_Witness ==
    /\ pc = "instr_open"
    /\ C11_Pairs = {<<"tdp", "EPA 365.1">>}
    /\ C11_Earliest(<<"tdp", "EPA 365.1">>) = 2020061000
    /\ C11_Latest(<<"tdp", "EPA 365.1">>) = 2024050100
    /\ \E i \in DOMAIN df :
          /\ df[i]["Characteristic_Name"] = "tdp"
          /\ df[i]["activity_start_date"] = 20240502
          /\ df[i]["instrument"] = "EPA 365.1"

(***************************************************************************)
(* _apply_data_flags.  A relation is a record [cols, rows]: the column     *)
(* names in table order and the rows as functions from column name to      *)
(* value.                                                                  *)
(***************************************************************************)
\* DataFrame.melt: one row per value column and source row, column-major
Melt(tbl, idcols, valuecols, varname, valuename) ==
    Flatten(MapSeq(valuecols, LAMBDA c :
        MapSeq(tbl.rows, LAMBDA r :
            [k \in Range(idcols) \cup {varname, valuename} |->
                IF k = varname THEN c ELSE IF k = valuename THEN r[c] ELSE r[k]])))

RECURSIVE LastIndexOf(_, _, _)
LastIndexOf(s, ch, i) ==
    IF i = 0 THEN 0
    ELSE IF SubSeq(s, i, i) = ch THEN i
    ELSE LastIndexOf(s, ch, i - 1)

\* flag.rsplit('_', 1)[0]
RSplitHead(s) ==
    LET i == LastIndexOf(s, "_", Len(s))
    IN  IF i = 0 THEN s ELSE SubSeq(s, 1, i - 1)

\* lines 763 and 765
FlagCols(tbl) ==
    SelectSeq(tbl.cols, LAMBDA x : Contains(Lower(x), "flag")) \o <<"GlobalID">>

\* line 772
FlagsLookup(tbl) ==
    [cols |-> FlagCols(tbl),
     rows |-> MapSeq(tbl.rows, LAMBDA r : [c \in Range(FlagCols(tbl)) |-> r[c]])]

\* lines 773-777: flag column -> characteristic name
RECURSIVE FlagsXwalk(_, _)
FlagsXwalk(flags, acc) ==
    IF flags = <<>> THEN acc
    ELSE LET char == RSplitHead(Head(flags))
         IN  FlagsXwalk(Tail(flags),
                        IF char \notin DOMAIN acc /\ char # "GlobalID"
                        THEN [k \in DOMAIN acc \cup {Head(flags)} |->
                                 IF k = Head(flags) THEN char ELSE acc[k]]
                        ELSE acc)

abbreviations ==
    [mean_crossection_depth_flag |-> "other_mean_crossection_dep_flag",
     ysi_increment_distance_flag |-> "other_ysi_increment_dist_flag"]

\* lines 785-788
OtherCol(col) ==
    IF col \in DOMAIN abbreviations THEN abbreviations[col] ELSE "other_" \o col

\* line 795
IsPrimaryFlag(col) == ~Contains(col, "other") /\ col # "GlobalID"

\* line 797
OtherMask(v) == Contains(Lower(v), "other") /\ v # NULL

CounterpartMissingMutant(lk, col) == FALSE

\* line 798: flags_lookup[othercol] raises KeyError when the column is absent
CounterpartMissing(lk, col) == OtherCol(col) \notin Range(lk.cols)

\* line 798
ReconcileCol(lk, col) ==
    [lk EXCEPT !.rows = MapSeq(lk.rows, LAMBDA r :
        IF OtherMask(r[col]) THEN [r EXCEPT ![col] = Get(r, OtherCol(col))] ELSE r)]

\* lines 802-804
DropOthers(lk) ==
    LET keep == SelectSeq(lk.cols, LAMBDA c : ~Contains(c, "other"))
    IN  [cols |-> keep,
         rows |-> MapSeq(lk.rows, LAMBDA r : [c \in Range(keep) |-> r[c]])]

\* line 807
RenameCols(lk, xwalk) ==
    LET new(c) == IF c \in DOMAIN xwalk THEN xwalk[c] ELSE c
    IN  [cols |-> MapSeq(lk.cols, new),
         rows |-> MapSeq(lk.rows, LAMBDA r :
                     [k \in {new(c) : c \in DOMAIN r} |->
                         r[CHOOSE c \in DOMAIN r : new(c) = k]])]

\* lines 808-810
MeltFlags(lk) ==
    Melt(lk, <<"GlobalID">>, SelectSeq(lk.cols, LAMBDA c : c # "GlobalID"),
         "Characteristic_Name", "data_quality_flag")

\* line 814: left join on GlobalID and Characteristic_Name
MergeFlags(tfm_tbl, long) ==
    Flatten(MapSeq(tfm_tbl, LAMBDA t :
        LET hits == SelectSeq(long, LAMBDA f :
                        /\ f["GlobalID"] = t["GlobalID"]
                        /\ f["Characteristic_Name"] = t["Characteristic_Name"])
        IN  IF hits = <<>> THEN <<With(t, "data_quality_flag", NULL)>>
            ELSE MapSeq(hits, LAMBDA f : With(t, "data_quality_flag", f["data_quality_flag"]))))

\* lines 783-801: the loop from column i on; st = [lookup, i, reported]
FlagStep(st) ==
    LET col == st.lookup.cols[st.i]
    IN  IF ~IsPrimaryFlag(col) THEN [st EXCEPT !.i = @ + 1]
        ELSE IF CounterpartMissing(st.lookup, col)
        THEN [st EXCEPT !.i = Len(st.lookup.cols) + 1,
                        !.reported = Append(@, <<col, OtherCol(col)>>)]
        ELSE [st EXCEPT !.i = @ + 1, !.lookup = ReconcileCol(@, col)]

RECURSIVE FlagLoop(_)
FlagLoop(st) == IF st.i > Len(st.lookup.cols) THEN st ELSE FlagLoop(FlagStep(st))

\* lines 802-814
FlagFinish(tfm_tbl, tbl, lk) ==
    MergeFlags(tfm_tbl, MeltFlags(RenameCols(DropOthers(lk), FlagsXwalk(FlagCols(tbl), <<>>))))

ApplyDataFlags(tfm_tbl, tbl) ==
    FlagFinish(tfm_tbl, tbl,
               FlagLoop([lookup |-> FlagsLookup(tbl), i |-> 1, reported |-> <<>>]).lookup)

(***************************************************************************)
(* SpecFlag: _apply_data_flags on bounded relations.  The relation has two *)
(* rows and, for each of at most MaxFlagCols characteristics taken in any  *)
(* order, the value column, the primary flag column and, optionally, the   *)
(* paired "other" column.                                                  *)
(***************************************************************************)
MaxFlagCols == 2

FlagChars == {"discharge", "mean_crossection_depth", "air_temperature"}

FlagOrders ==
    {q \in UNION {[1..n -> FlagChars] : n \in 0..MaxFlagCols} :
        \A i, j \in DOMAIN q : i # j => q[i] # q[j]}

PrimaryVals == {NULL, "Other", "permanently_missing"}

OtherVals == {NULL, "custom"}

FlagOf(c) == c \o "_flag"

FlagRelation(order, others, vals, ovals) ==
    LET cols == <<"GlobalID">> \o order \o
                Flatten(MapSeq(order, LAMBDA c :
                    IF c \in others THEN <<FlagOf(c), OtherCol(FlagOf(c))>>
                    ELSE <<FlagOf(c)>>))
        row(g, first) ==
            [k \in Range(cols) |->
                IF k = "GlobalID" THEN g
                ELSE IF k \in Range(order) THEN (IF first THEN "1.0" ELSE "2.0")
                ELSE IF \E c \in Range(order) : k = FlagOf(c)
                THEN (IF first THEN vals[CHOOSE c \in Range(order) : k = FlagOf(c)]
                      ELSE "other")
                ELSE (IF first THEN ovals[CHOOSE c \in others : k = OtherCol(FlagOf(c))]
                      ELSE "second")]
    IN  [cols |-> cols, rows |-> <<row("g1", TRUE), row("g2", FALSE)>>]

InitFlag ==
    /\ NoExchange
    /\ \E order \in FlagOrders :
         \E others \in SUBSET Range(order) :
           \E vals \in [Range(order) -> PrimaryVals], ovals \in [others -> OtherVals] :
              tbl_main = FlagRelation(order, others, vals, ovals)
    /\ tbl_ysi = <<>>
    /\ tbl_grabsample = <<>>
    /\ res = <<>>
    /\ include_deletes = FALSE
    /\ run = "none"
    /\ df = Melt(tbl_main, <<"GlobalID">>, Tail(tbl_main.cols),
                 "Characteristic_Name", "Result_Text")
    /\ pc = "flag_ready"
    /\ aux = <<>>

\* lines 758-782
FlagBuildLookup ==
    /\ pc = "flag_ready"
    /\ aux' = [lookup |-> FlagsLookup(tbl_main), i |-> 1, reported |-> <<>>]
    /\ pc' = "flag_loop"
    /\ UNCHANGED <<df, inputs, outputs>>

\* lines 783-798: one iteration that does not raise
FlagReconcile ==
    /\ pc = "flag_loop"
    /\ aux.i <= Len(aux.lookup.cols)
    /\ ~(IsPrimaryFlag(aux.lookup.cols[aux.i])
         /\ CounterpartMissing(aux.lookup, aux.lookup.cols[aux.i]))
    /\ aux' = FlagStep(aux)
    /\ UNCHANGED <<df, pc, inputs, outputs>>

\* lines 799-801: the except branch prints the column and leaves the loop
FlagFail ==
    /\ pc = "flag_loop"
    /\ aux.i <= Len(aux.lookup.cols)
    /\ IsPrimaryFlag(aux.lookup.cols[aux.i])
    /\ CounterpartMissing(aux.lookup, aux.lookup.cols[aux.i])
    /\ aux' = FlagStep(aux)
    /\ UNCHANGED <<df, pc, inputs, outputs>>

\* lines 802-818
FlagMerge ==
    /\ pc = "flag_loop"
    /\ aux.i > Len(aux.lookup.cols)
    /\ df' = FlagFinish(df, tbl_main, aux.lookup)
    /\ pc' = "flag_done"
    /\ UNCHANGED <<aux, inputs, outputs>>

NextFlag ==
    \/ FlagBuildLookup
    \/ FlagReconcile
    \/ FlagFail
    \/ FlagMerge

SpecFlag == InitFlag /\ [][NextFlag]_vars

\* the primary flag columns of the relation, and the flag joined onto the
\* triple of source row r and characteristic of primary flag column col
PrimaryFlags == {c \in Range(FlagCols(tbl_main)) : IsPrimaryFlag(c)}

JoinedFlags(r, col) ==
    {df[i]["data_quality_flag"] :
        i \in {j \in DOMAIN df : /\ df[j]["GlobalID"] = r["GlobalID"]
                                 /\ df[j]["Characteristic_Name"] = RSplitHead(col)}}

\* C6: after reconciliation, for every row and every primary flag column
\* that has a paired "other" column, wherever it stands in the column order,
\* the flag joined onto the triple is the "other" column's value when the
\* primary flag is non-null and contains "other" (any case), and the primary
\* flag's own value otherwise.
C6_FlagsReconciled ==
    pc = "flag_done" =>
        \A k \in DOMAIN tbl_main.rows :
            \A col \in {c \in PrimaryFlags : OtherCol(c) \in Range(tbl_main.cols)} :
                LET r == tbl_main.rows[k]
                IN  JoinedFlags(r, col) =
                        {IF r[col] # NULL /\ Contains(Lower(r[col]), "other")
                         THEN r[OtherCol(col)] ELSE r[col]}

\* C7: every primary flag column without an "other" counterpart is reported
\* by name, and the columns that do have a counterpart are reconciled all the
\* same.
C7_MissingReportedOthersReconciled ==
    pc = "flag_done" =>
        /\ \A col \in {c \in PrimaryFlags : OtherCol(c) \notin Range(tbl_main.cols)} :
              \E n \in DOMAIN aux.reported : aux.reported[n][1] = col
        /\ \A col \in {c \in PrimaryFlags : OtherCol(c) \in Range(tbl_main.cols)} :
              \A k \in DOMAIN aux.lookup.rows :
                  aux.lookup.rows[k][col] =
                      IF OtherMask(tbl_main.rows[k][col])
                      THEN tbl_main.rows[k][OtherCol(col)]
                      ELSE tbl_main.rows[k][col]

\* C8: on a flag table that has no "other" column, reconciliation leaves
\* every primary flag value as it was.
C8_Reconciled == \A c \in Range(tbl_main.cols) : ~Contains(c, "other")

C8_Idempotent ==
    (pc = "flag_done" /\ C8_Reconciled) =>
        \A k \in DOMAIN tbl_main.rows : \A col \in PrimaryFlags :
            /\ aux.lookup.rows[k][col] = tbl_main.rows[k][col]
            /\ JoinedFlags(tbl_main.rows[k], col) = {tbl_main.rows[k][col]}

C8_Witness ==
    /\ pc = "flag_done"
    /\ C8_Reconciled
    /\ Cardinality(PrimaryFlags) = 2
    /\ \A col \in PrimaryFlags :
          /\ tbl_main.rows[1][col] = "Other"
          /\ JoinedFlags(tbl_main.rows[1], col) = {"Other"}

(***************************************************************************)
(* _transform, lines 11-24: the three relations are filtered, unpivoted    *)
(* and joined to the site visits.                                          *)
(***************************************************************************)
\* the columns of constants.SITE_VISIT_COLS that the modelled relations carry
SITE_VISIT_COLS ==
    <<"GlobalID", "review_status", "activity_group_id", "location_id",
      "activity_start_date", "sampleability", "delete_record">>

FLAT_COLS ==
    <<"GlobalID", "ParentGlobalID", "lab", "anc_method", "ysi_increment", "ysi_probe",
      "discharge_instrument", "grouping_var", "Characteristic_Name", "Result_Text",
      "ysi_increment_notes">>

\* tbl[cols]
Project(tbl, cols) ==
    [cols |-> cols,
     rows |-> MapSeq(tbl.rows, LAMBDA r : [c \in Range(cols) |-> r[c]])]

\* line 949
DelCol(tbl) == SelectSeq(tbl.cols, LAMBDA x : Contains(x, "delete"))

KeepsRowMutant(v) == v # "yes"

\* line 951: a missing value is not 'yes'
KeepsRow(v) == Lower(v) # "yes"

\* lines 951-953
RemoveDeletes(tbl) ==
    [tbl EXCEPT !.rows = SelectSeq(@, LAMBDA r : KeepsRow(r[DelCol(tbl)[1]]))]

\* lines 605-606 and the like: the filter is skipped when deletes are included
FilterDeletes(tbl, incl) == IF incl THEN tbl ELSE RemoveDeletes(tbl)

\* line 950 as len(del_col) >= 1
DeleteAssertFailsMutant(tbl, incl) == ~incl /\ Len(DelCol(tbl)) = 0

\* line 950 fails for a relation without exactly one delete column
DeleteAssertFails(tbl, incl) == ~incl /\ Len(DelCol(tbl)) # 1

\* the FLAT_COLS of a melted row, absent columns filled with None
Flat(t) == [c \in Range(FLAT_COLS) |-> Get(t, c)]

\* lines 599-608
TransformSiteVisits(tbl, incl) ==
    MapSeq(FilterDeletes(Project(tbl, SITE_VISIT_COLS), incl).rows, LAMBDA r :
        [c \in (DOMAIN r \ {"GlobalID"}) \cup {"SiteVisitGlobalID"} |->
            IF c = "SiteVisitGlobalID" THEN r["GlobalID"] ELSE r[c]])

\* lines 672-697
GroupingLu ==
    [NCRN_WQ_HABINV |->
        {"air_temperature", "algae_cover_percent", "algae_description",
         "stream_physical_appearance", "flow_status", "sampleability", "visit_type",
         "rain_last_24", "photos_y_n", "weather_condition", "left_bank_riparian_width",
         "right_bank_riparian_width", "entry_other_stream_phy_appear"},
     NCRN_WQ_WQUANTITY |->
        {"discharge", "mean_velocity", "mean_crossection_depth", "flowtracker_notes",
         "wetted_width", "tape_offset"}]

\* lines 698-702
GroupingOf(c) ==
    IF c \in GroupingLu["NCRN_WQ_WQUANTITY"] THEN "NCRN_WQ_WQUANTITY"
    ELSE IF c \in GroupingLu["NCRN_WQ_HABINV"] THEN "NCRN_WQ_HABINV"
    ELSE NULL

\* lines 710-715
wquantity_chars == {"discharge", "mean_crossection_depth", "wetted_width", "mean_velocity"}

\* lines 642-719
TransformTblMain(tbl_in, incl) ==
    LET adds == SelectSeq(tbl_in.cols, LAMBDA x :
                    Lower(x) # "objectid" /\ x \notin Range(SITE_VISIT_COLS))
        ID_COLS == <<"GlobalID", "discharge_instrument">>
        tbl == Project(FilterDeletes(tbl_in, incl), <<"GlobalID">> \o adds)
        VALUE_COLS == SelectSeq(tbl.cols, LAMBDA x : x \notin Range(ID_COLS))
        melted == Melt(tbl, ID_COLS, VALUE_COLS, "Characteristic_Name", "Result_Text")
        flat == MapSeq(melted, LAMBDA t :
                    Flat(With(With(t, "ParentGlobalID", t["GlobalID"]),
                              "grouping_var", GroupingOf(t["Characteristic_Name"]))))
    IN  MapSeq(ApplyDataFlags(flat, tbl), LAMBDA t :
            IF t["Characteristic_Name"] \in wquantity_chars THEN t
            ELSE With(t, "discharge_instrument", NULL))

\* lines 617-620 and 728-731
ChildAdds(tbl) ==
    SelectSeq(tbl.cols, LAMBDA x :
        Lower(x) \notin {"objectid", "globalid", "parentglobalid"} \cup Range(SITE_VISIT_COLS))

\* lines 632 and 743: inner join of the melted rows with GlobalID -> ParentGlobalID
MergeLookup(melted, lookup) ==
    Flatten(MapSeq(melted, LAMBDA t :
        MapSeq(SelectSeq(lookup, LAMBDA l : l["GlobalID"] = t["GlobalID"]),
               LAMBDA l : With(t, "ParentGlobalID", l["ParentGlobalID"]))))

\* lines 610-640
TransformTblYsi(tbl_in, incl) ==
    LET ID_COLS == <<"GlobalID", "ysi_increment", "ysi_probe", "ysi_increment_notes">>
        tbl == Project(FilterDeletes(tbl_in, incl), <<"GlobalID">> \o ChildAdds(tbl_in))
        VALUE_COLS == SelectSeq(tbl.cols, LAMBDA x : x \notin Range(ID_COLS))
        melted == Melt(tbl, ID_COLS, VALUE_COLS, "Characteristic_Name", "Result_Text")
        flat == MapSeq(MergeLookup(melted, tbl_in.rows), LAMBDA t :
                    Flat(With(t, "grouping_var", "NCRN_WQ_WQUALITY")))
    IN  ApplyDataFlags(flat, tbl)

\* lines 721-753
TransformTblGrabsample(tbl_in, incl) ==
    LET ID_COLS == <<"GlobalID", "lab", "anc_method">>
        tbl == Project(FilterDeletes(tbl_in, incl), <<"GlobalID">> \o ChildAdds(tbl_in))
        VALUE_COLS == SelectSeq(tbl.cols, LAMBDA x : x \notin Range(ID_COLS))
        melted == Melt(tbl, ID_COLS, VALUE_COLS, "Characteristic_Name", "Result_Text")
        flat == MapSeq(MergeLookup(melted, tbl_in.rows), LAMBDA t :
                    Flat(With(t, "grouping_var", "NCRN_WQ_WCHEM")))
    IN  ApplyDataFlags(
            MapSeq(flat, LAMBDA t :
                IF t["lab"] = "CUE" /\ t["Characteristic_Name"] = "anc" THEN t
                ELSE With(t, "anc_method", NULL)),
            tbl)

\* line 17: inner join, in the order of the site visits
MergeSiteVisits(site_visits, triples) ==
    Flatten(MapSeq(site_visits, LAMBDA v :
        MapSeq(SelectSeq(triples, LAMBDA t : t["ParentGlobalID"] = v["SiteVisitGlobalID"]),
               LAMBDA t : [c \in DOMAIN v \cup DOMAIN t |->
                              IF c \in DOMAIN v THEN v[c] ELSE t[c]])))

\* line 20 (the names that the modelled relations could carry)
TransformExcludes == {"x", "y", "entry_lab", "entry_other_lab", "duplicate_collected"}

\* line 22
KeptCharacteristic(c) ==
    /\ c \notin TransformExcludes
    /\ c \notin Range(SITE_VISIT_COLS)
    /\ ~Contains(c, "delete")
    /\ ~Contains(c, "flag")

\* lines 11-24
Flattened(main, ysi, grab, incl) ==
    SelectSeq(
        MergeSiteVisits(TransformSiteVisits(main, incl),
                        TransformTblMain(main, incl)
                            \o TransformTblYsi(ysi, incl)
                            \o TransformTblGrabsample(grab, incl)),
        LAMBDA t : KeptCharacteristic(t["Characteristic_Name"]))

\* line 951: read_csv gives a column without any value the float type, and
\* the .str accessor raises AttributeError on it
StrAccessorFails(tbl, incl) ==
    /\ ~incl
    /\ tbl.rows # <<>>
    /\ \A r \in Range(tbl.rows) : r[DelCol(tbl)[1]] = NULL

RemoveDeletesFails(tbl, incl) == DeleteAssertFails(tbl, incl) \/ StrAccessorFails(tbl, incl)

FlattenFails(main, ysi, grab, incl) ==
    \/ RemoveDeletesFails(Project(main, SITE_VISIT_COLS), incl)
    \/ RemoveDeletesFails(main, incl)
    \/ RemoveDeletesFails(ysi, incl)
    \/ RemoveDeletesFails(grab, incl)

(***************************************************************************)
(* _transform, lines 26-50, and the two runs that call it.  _decode,       *)
(* _gather_others, _scrub_locs and _calc_week_of_year rewrite columns that *)
(* the modelled relations do not carry.                                    *)
(***************************************************************************)
\* lines 863-925, the entries of the characteristics that the model uses
TypeLookup ==
    [air_temperature |-> <<"float", "deg C">>,
     weather_condition |-> <<"string", NULL>>,
     flow_status |-> <<"string", NULL>>,
     rain_last_24 |-> <<"bool", NULL>>,
     discharge |-> <<"float", "cfs">>,
     ph |-> <<"float", "pH">>,
     anc |-> <<"float", "ueq/L">>,
     tp |-> <<"float", "mg/L">>,
     ammonia |-> <<"float", "mg/L">>,
     orthophosphate |-> <<"float", "mg/L">>,
     nitrate |-> <<"float", "mg/L">>,
     tdp |-> <<"float", "mg/L">>]

\* lines 939-944
ApplyDataTypes(d) ==
    MapSeq(d, LAMBDA t :
        LET known == t["Characteristic_Name"] \in DOMAIN TypeLookup
        IN  With(With(t, "data_type",
                      IF known THEN TypeLookup[t["Characteristic_Name"]][1] ELSE NULL),
                 "Result_Unit",
                 IF known THEN TypeLookup[t["Characteristic_Name"]][2] ELSE NULL))

\* lines 1072-1086 without the mask of line 1083
CastResultByTypeMutant(d) ==
    MapSeq(d, LAMBDA t :
        With(With(t, "num_result",
                  IF t["data_type"] = "float" THEN t["Result_Text"] ELSE NULL),
             "str_result", t["Result_Text"]))

\* lines 1072-1086: the result text is copied, not converted
CastResultByType(d) ==
    MapSeq(d, LAMBDA t :
        With(With(t, "num_result",
                  IF t["data_type"] = "float" THEN t["Result_Text"] ELSE NULL),
             "str_result",
             IF t["data_type"] \in {"bool", "string"} THEN t["Result_Text"] ELSE NULL))

\* lines 36-38: rows with a numeric result first
NumFirst(d) ==
    SelectSeq(d, LAMBDA t : t["num_result"] # NULL)
        \o SelectSeq(d, LAMBDA t : t["num_result"] = NULL)

\* lines 26-38
Typed(d) == NumFirst(CastResultByType(ApplyDataTypes(d)))

\* the decimal digits
DigitOf(c) ==
    CASE c = "0" -> 0 [] c = "1" -> 1 [] c = "2" -> 2 [] c = "3" -> 3 [] c = "4" -> 4
      [] c = "5" -> 5 [] c = "6" -> 6 [] c = "7" -> 7 [] c = "8" -> 8 [] c = "9" -> 9

RECURSIVE DigitsVal(_)
DigitsVal(s) ==
    IF Len(s) = 0 THEN 0
    ELSE 10 * DigitsVal(SubSeq(s, 1, Len(s) - 1)) + DigitOf(SubSeq(s, Len(s), Len(s)))

\* the number that read_csv makes of the text of a numeric cell, in hundredths
ToFloat(s) ==
    LET neg == SubSeq(s, 1, 1) = "-"
        body == IF neg THEN SubSeq(s, 2, Len(s)) ELSE s
        dot == LastIndexOf(body, ".", Len(body))
        whole == IF dot = 0 THEN body ELSE SubSeq(body, 1, dot - 1)
        frac == IF dot = 0 THEN "" ELSE SubSeq(body, dot + 1, Len(body))
        mag == 100 * DigitsVal(whole) + DigitsVal(SubSeq(frac \o "00", 1, 2))
    IN  IF neg THEN 0 - mag ELSE mag

\* a <= b on two numeric cells: False when either is NaN
NumLeq(a, b) == a # NULL /\ b # NULL /\ ToFloat(a) <= ToFloat(b)

\* lines 556-557: the year and the month of 'YYYY-MM-DD'
YearOf(d) == ToString(d \div 10000)

MonthOf(d) ==
    LET m == (d \div 100) % 100
    IN  IF m < 10 THEN "0" \o ToString(m) ELSE ToString(m)

\* line 558
SoftKey(t) ==
    Concat(Concat(Concat(t["location_id"], YearOf(t["activity_start_date"])),
                  MonthOf(t["activity_start_date"])),
           t["Characteristic_Name"])

\* str.replace(pat, '')
RECURSIVE StrRemove(_, _)
StrRemove(s, pat) ==
    IF Len(s) < Len(pat) THEN s
    ELSE IF SubSeq(s, 1, Len(pat)) = pat
         THEN StrRemove(SubSeq(s, Len(pat) + 1, Len(s)), pat)
         ELSE SubSeq(s, 1, 1) \o StrRemove(SubSeq(s, 2, Len(s)), pat)

SoftIdCols == <<"key", "location_id", "month", "year">>

\* lines 566-579: the long rendering of the bounds file, one (key, high, low)
\* row per pair of a high and a low with the same key
LongConstraints(constraints) ==
    LET tmp == Melt(constraints, SoftIdCols,
                    SelectSeq(constraints.cols, LAMBDA c : c \notin Range(SoftIdCols)),
                    "variable", "value")
        lows == MapSeq(SelectSeq(tmp, LAMBDA r : Contains(r["variable"], "low_")),
                       LAMBDA r : [key |-> Concat(r["key"], StrRemove(r["variable"], "low_")),
                                   low |-> r["value"]])
        highs == MapSeq(SelectSeq(tmp, LAMBDA r : ~Contains(r["variable"], "low_")),
                        LAMBDA r : [key |-> Concat(r["key"], StrRemove(r["variable"], "high_")),
                                    high |-> r["value"]])
    IN  Flatten(MapSeq(highs, LAMBDA h :
            MapSeq(SelectSeq(lows, LAMBDA l : l["key"] = h["key"]),
                   LAMBDA l : [key |-> h["key"], high |-> h["high"], low |-> l["low"]])))

\* line 581 as an inner join: a row without bounds is lost
MergeConstraintsMutant(d, long) ==
    Flatten(MapSeq(d, LAMBDA t :
        MapSeq(SelectSeq(long, LAMBDA c : c["key"] = SoftKey(t)),
               LAMBDA c : With(With(t, "high", c["high"]), "low", c["low"]))))

\* lines 581-584: left join on the key; key, year and month are deleted again
MergeConstraints(d, long) ==
    Flatten(MapSeq(d, LAMBDA t :
        LET found == SelectSeq(long, LAMBDA c : c["key"] = SoftKey(t))
        IN  IF found = <<>> THEN <<With(With(t, "high", NULL), "low", NULL)>>
            ELSE MapSeq(found, LAMBDA c : With(With(t, "high", c["high"]), "low", c["low"]))))

\* line 586 with < for <=
BelowMaskMutant(t) ==
    /\ t["data_type"] = "float"
    /\ NumLeq(t["num_result"], t["low"])
    /\ ToFloat(t["num_result"]) # ToFloat(t["low"])
    /\ t["review_status"] # "verified"

\* line 586
BelowMask(t) ==
    /\ t["data_type"] = "float"
    /\ NumLeq(t["num_result"], t["low"])
    /\ t["review_status"] # "verified"

\* line 589
AboveMask(t) ==
    /\ t["data_type"] = "float"
    /\ NumLeq(t["high"], t["num_result"])
    /\ t["review_status"] # "verified"

\* lines 585-590: the second np.where overrides the first
ResultWarning(t) ==
    IF AboveMask(t) THEN "result is above soft constraint"
    ELSE IF BelowMask(t) THEN "result is below soft constraint"
    ELSE NULL

\* lines 544-593
SoftConstraints(d, constraints) ==
    MapSeq(MergeConstraints(d, LongConstraints(constraints)),
           LAMBDA t : With(t, "result_warning", ResultWarning(t)))

\* the bounds file of the runs: one entry, for the month of visit V1
SOFT_CONSTRAINTS ==
    [cols |-> <<"key", "location_id", "month", "year",
                "low_ph", "high_ph", "low_air_temperature", "high_air_temperature">>,
     rows |-> <<[key |-> "NCRN_LOC202006", location_id |-> "NCRN_LOC", month |-> "6",
                 year |-> "2020", low_ph |-> "6.5", high_ph |-> "8.5",
                 low_air_temperature |-> "0", high_air_temperature |-> "30"]>>]

\* transform.py 39-42 without the call of line 40
FilteredMutant(d) ==
    SelectSeq(SelectSeq(d, LAMBDA t : t["data_quality_flag"] # "permanently_missing"),
              LAMBDA t : ~Contains(t["Characteristic_Name"], "_notes"))

\* lines 39-42
Filtered(d) ==
    SelectSeq(SoftConstraints(SelectSeq(d, LAMBDA t :
                                  t["data_quality_flag"] # "permanently_missing"),
                              SOFT_CONSTRAINTS),
              LAMBDA t : ~Contains(t["Characteristic_Name"], "_notes"))

\* line 46
ignores ==
    {"anc_method", "landuse_category", "dom_riparian_ter_veg_sp", "channelized",
     "bank_stability", "entry_stream_phy_appear"}

\* lines 44-50
Instrumented(d, log) ==
    SelectSeq(InstrumentColumn(d, log), LAMBDA t : t["Characteristic_Name"] \notin ignores)

\* transform.py 1092: the quality-control pass sets the project and reports
QualityControl(d) ==
    MapSeq(d, LAMBDA t : With(t, "project_id", "Perennial stream water monitoring"))

WqpExcludes ==
    {"left_bank_riparian_width", "right_bank_riparian_width", "duplicate_y_n",
     "nutrient_bottle_size", "anc_bottle_size", "ysi_increment_distance",
     "entry_other_stream_phy_appear", "discharge_instrument", "ysi_probe",
     "tape_offset", "rain_last_24", "chlorine"}

CueEnd == 20161001

CblEnd == 20200101

\* utils.py 1126-1141
RecodeLab(t) ==
    IF t["grouping_var"] # "NCRN_WQ_WCHEM" THEN t
    ELSE IF t["activity_start_date"] > CblEnd THEN With(t, "lab", "AL")
    ELSE IF t["activity_start_date"] >= CueEnd THEN With(t, "lab", "CBL")
    ELSE With(t, "lab", "CUE")

FlagCutoff == 20071218

\* utils.py 1153-1172
FixFlags(t) ==
    LET a == IF t["data_quality_flag"] = "equipment_malfunction" /\ t["Result_Text"] # NULL
             THEN With(t, "Result_Text", NULL) ELSE t
        b == IF /\ a["activity_start_date"] >= FlagCutoff
                /\ a["data_quality_flag"] = "present_not_on_datasheet"
                /\ a["instrument"] = "calculated_result"
             THEN With(a, "data_quality_flag", NULL) ELSE a
    IN  IF /\ b["ysi_increment_notes"] # NULL
           /\ Contains(b["ysi_increment_notes"], "QA")
           /\ b["grouping_var"] = "NCRN_WQ_WQUALITY"
           /\ b["data_quality_flag"] = "present_not_on_datasheet"
        THEN With(b, "data_quality_flag", "QA; repeated sample at same location")
        ELSE b

\* utils.py 1105-1107 left out
WqpQcMutant(d) ==
    LET included == SelectSeq(d, LAMBDA t : t["Characteristic_Name"] \notin WqpExcludes)
        recoded == MapSeq(included, RecodeLab)
        kept == SelectSeq(recoded, LAMBDA t :
                    ~(/\ t["lab"] = "CUE"
                      /\ t["Characteristic_Name"] \in
                            {"orthophosphate", "tp", "tdp", "ammonia", "nitrate", "tn", "tdn"}))
    IN  MapSeq(kept, FixFlags)

\* utils.py 1095-1177
WqpQc(d) ==
    LET verified == SelectSeq(d, LAMBDA t : t["review_status"] = "verified")
        included == SelectSeq(verified, LAMBDA t : t["Characteristic_Name"] \notin WqpExcludes)
        recoded == MapSeq(included, RecodeLab)
        kept == SelectSeq(recoded, LAMBDA t :
                    ~(/\ t["lab"] = "CUE"
                      /\ t["Characteristic_Name"] \in
                            {"orthophosphate", "tp", "tdp", "ammonia", "nitrate", "tn", "tdn"}))
    IN  MapSeq(kept, FixFlags)

(***************************************************************************)
(* SpecRun: a dashboard run (dashboard_etl) or an exchange run (wqp_wqx)   *)
(* over bounded relations.  Visit V1 and its children Y1 and S1 are kept   *)
(* and verified; the other visits and one more row of each child relation  *)
(* draw their delete indicator, review status and parent freely.           *)
(***************************************************************************)
NumVisits == 2

DeleteVals == {NULL, "yes", "Yes"}

VisitIds == {"V" \o ToString(i) : i \in 1..NumVisits}

MainCols ==
    <<"GlobalID", "activity_group_id", "review_status", "delete_record",
      "activity_start_date", "location_id", "sampleability",
      "air_temperature", "discharge", "discharge_instrument">>

YsiCols ==
    <<"GlobalID", "ParentGlobalID", "delete_increment", "ysi_probe", "ysi_increment",
      "ysi_increment_notes", "ph", "ph_flag", "other_ph_flag">>

GrabCols ==
    <<"GlobalID", "ParentGlobalID", "delete_grabsample", "lab", "anc_method",
      "anc", "tp", "orthophosphate", "ammonia">>

RunVisit(g, del, status, date) ==
    [GlobalID |-> g, activity_group_id |-> "A_" \o g, review_status |-> status,
     delete_record |-> del, activity_start_date |-> date, location_id |-> "NCRN_LOC",
     sampleability |-> "Actively Sampled", air_temperature |-> "15.2",
     discharge |-> "3.5", discharge_instrument |-> "flowtracker"]

RunYsi(g, parent, del) ==
    [GlobalID |-> g, ParentGlobalID |-> parent, delete_increment |-> del,
     ysi_probe |-> "ysi_a", ysi_increment |-> "inc1", ysi_increment_notes |-> NULL,
     ph |-> "7.1", ph_flag |-> NULL, other_ph_flag |-> NULL]

RunGrab(g, parent, del) ==
    [GlobalID |-> g, ParentGlobalID |-> parent, delete_grabsample |-> del,
     lab |-> "AL", anc_method |-> NULL, anc |-> "120", tp |-> "0.02",
     orthophosphate |-> "0.01", ammonia |-> "0.1"]

RunLog == <<LogEntry(<<"TDP", "EPA 365.1">>, <<20161005, 9>>)>>

InitRun ==
    /\ NoExchange
    /\ \E dels \in [VisitIds \ {"V1"} -> DeleteVals],
          sts \in [VisitIds \ {"V1"} -> {"verified", "in_review"}] :
          tbl_main =
            [cols |-> MainCols,
             rows |-> [i \in 1..NumVisits |->
                         IF i = 1 THEN RunVisit("V1", "no", "verified", 20200610)
                         ELSE RunVisit("V" \o ToString(i), dels["V" \o ToString(i)],
                                       sts["V" \o ToString(i)], 20100315)]]
    /\ \E p \in VisitIds, del \in DeleteVals :
          tbl_ysi = [cols |-> YsiCols,
                     rows |-> <<RunYsi("Y1", "V1", "no"), RunYsi("Y2", p, del)>>]
    /\ \E p \in VisitIds, del \in DeleteVals :
          tbl_grabsample = [cols |-> GrabCols,
                            rows |-> <<RunGrab("S1", "V1", NULL), RunGrab("S2", p, del)>>]
    /\ res = RunLog
    /\ run \in {"dashboard", "exchange"}
    /\ include_deletes \in BOOLEAN
    /\ run = "exchange" => include_deletes = FALSE
    /\ df = <<>>
    /\ pc = "tfm_start"
    /\ aux = "none"

\* transform.py 11-24
TfmFlatten ==
    /\ pc = "tfm_start"
    /\ IF FlattenFails(tbl_main, tbl_ysi, tbl_grabsample, include_deletes)
       THEN pc' = "tfm_abort" /\ df' = df
       ELSE /\ pc' = "tfm_flat"
            /\ df' = Flattened(tbl_main, tbl_ysi, tbl_grabsample, include_deletes)
    /\ UNCHANGED <<aux, inputs, outputs>>

\* transform.py 26-38
TfmTypes ==
    /\ pc = "tfm_flat"
    /\ df' = Typed(df)
    /\ pc' = "tfm_typed"
    /\ UNCHANGED <<aux, inputs, outputs>>

\* transform.py 39-42
TfmFilter ==
    /\ pc = "tfm_typed"
    /\ df' = Filtered(df)
    /\ pc' = "tfm_filtered"
    /\ UNCHANGED <<aux, inputs, outputs>>

\* transform.py 44-55: activity ids are not assigned here (line 53)
TfmInstrument ==
    /\ pc = "tfm_filtered"
    /\ IF HardCodedFails(df, res)
       THEN pc' = "tfm_abort" /\ df' = df
       ELSE pc' = "tfm_done" /\ df' = Instrumented(df, res)
    /\ UNCHANGED <<aux, inputs, outputs>>

\* utils.py 272-300: the columns of the dashboard file are columns of df
DashboardFinish ==
    /\ pc = "tfm_done"
    /\ run = "dashboard"
    /\ df' = QualityControl(df)
    /\ pc' = "dash_done"
    /\ UNCHANGED <<aux, inputs, outputs>>

\* utils.py 879-880
WqxQc ==
    /\ pc = "tfm_done"
    /\ run = "exchange"
    /\ df' = WqpQc(QualityControl(df))
    /\ pc' = "wqx_qc"
    /\ UNCHANGED <<aux, inputs, outputs>>

\* utils.py 881
WqxAssignActivityId ==
    /\ pc = "wqx_qc"
    /\ aux' = ActStatus(df)
    /\ pc' = IF ActStatus(df) = "ok" THEN "wqx_done" ELSE "wqx_abort"
    /\ df' = IF ActStatus(df) = "ok" THEN ActAssigned(df) ELSE df
    /\ UNCHANGED <<inputs, outputs>>

NextRun ==
    \/ TfmFlatten
    \/ TfmTypes
    \/ TfmFilter
    \/ TfmInstrument
    \/ DashboardFinish
    \/ WqxQc
    \/ WqxAssignActivityId

SpecRun == InitRun /\ [][NextRun]_vars

\* the relation a triple was unpivoted from, and whether the row with
\* identifier g of a relation carries the delete indicator 'yes' in any case
SourceRelation(t) ==
    IF t["grouping_var"] = "NCRN_WQ_WQUALITY" THEN tbl_ysi
    ELSE IF t["grouping_var"] = "NCRN_WQ_WCHEM" THEN tbl_grabsample
    ELSE tbl_main

MarkedDeleted(tbl, g) ==
    \E k \in DOMAIN tbl.rows :
        /\ tbl.rows[k]["GlobalID"] = g
        /\ tbl.rows[k][DelCol(tbl)[1]] \in {"yes", "Yes", "YES"}

\* the triples that the relations yield when no delete indicator is looked at:
\* source row, parent visit and characteristic
C1_AllTriples ==
    {<<r["GlobalID"], r["GlobalID"], c>> :
        r \in Range(tbl_main.rows), c \in {"air_temperature", "discharge"}}
    \cup {<<r["GlobalID"], r["ParentGlobalID"], "ph">> : r \in Range(tbl_ysi.rows)}
    \cup {<<r["GlobalID"], r["ParentGlobalID"], c>> :
            r \in Range(tbl_grabsample.rows),
            c \in {"anc", "tp", "orthophosphate", "ammonia"}}

C1_Triples == {<<t["GlobalID"], t["ParentGlobalID"], t["Characteristic_Name"]>> : t \in Range(df)}

\* C1: with include_deletes = FALSE the table of _transform holds no triple
\* of a source row marked 'yes' (in any case) in its own relation and no triple
\* whose parent visit is marked so in the header relation; with
\* include_deletes = TRUE it holds the triples of every source row, whatever
\* the delete indicators say.
C1_DeletesRemoved ==
    pc \in {"tfm_flat", "tfm_typed", "tfm_filtered", "tfm_done"} =>
        IF include_deletes
        THEN C1_Triples = C1_AllTriples
        ELSE \A i \in DOMAIN df :
                /\ ~MarkedDeleted(SourceRelation(df[i]), df[i]["GlobalID"])
                /\ ~MarkedDeleted(tbl_main, df[i]["ParentGlobalID"])

C1_Witness ==
    /\ pc = "tfm_done"
    /\ ~include_deletes
    /\ MarkedDeleted(tbl_main, "V2")
    /\ tbl_ysi.rows[2]["ParentGlobalID"] = "V2"
    /\ ~MarkedDeleted(tbl_ysi, "Y2")
    /\ tbl_grabsample.rows[2]["ParentGlobalID"] = "V1"
    /\ tbl_grabsample.rows[2]["delete_grabsample"] = "Yes"
    /\ {t["GlobalID"] : t \in Range(df)} = {"V1", "Y1", "S1"}

\* the fields that the activity id is computed from
C2_Inputs(t) ==
    <<t["activity_group_id"], t["grouping_var"], t["discharge_instrument"],
      t["sampleability"], t["ysi_probe"], t["ysi_increment"], t["lab"]>>

C2_Total ==
    /\ \A i \in DOMAIN df : Get(df[i], "activity_id") # NULL
    /\ \A i, j \in DOMAIN df :
          C2_Inputs(df[i]) = C2_Inputs(df[j])
              => Get(df[i], "activity_id") = Get(df[j], "activity_id")

E2EMain(temp, status, del, withFlow) ==
    [cols |-> SITE_VISIT_COLS \o <<"air_temperature">>
                \o (IF withFlow THEN <<"discharge">> ELSE <<>>)
                \o <<"discharge_instrument">>,
     rows |-> <<[c \in Range(SITE_VISIT_COLS)
                      \cup {"air_temperature", "discharge_instrument"}
                      \cup (IF withFlow THEN {"discharge"} ELSE {}) |->
                    CASE c = "GlobalID" -> "V1"
                      [] c = "review_status" -> status
                      [] c = "activity_group_id" -> "A_V1"
                      [] c = "location_id" -> "NCRN_LOC"
                      [] c = "activity_start_date" -> 20200610
                      [] c = "sampleability" -> "Actively Sampled"
                      [] c = "delete_record" -> del
                      [] c = "air_temperature" -> temp
                      [] c = "discharge" -> "3.5"
                      [] c = "discharge_instrument" ->
                            IF withFlow THEN "flowtracker" ELSE NULL]>>]

E2EYsi(withYsi) ==
    [cols |-> YsiCols,
     rows |-> IF withYsi THEN <<RunYsi("Y1", "V1", "no")>> ELSE <<>>]

E2EGrab(lab, anc) ==
    [cols |-> <<"GlobalID", "ParentGlobalID", "delete_grabsample", "lab", "anc_method", "anc">>,
     rows |-> <<[GlobalID |-> "S1", ParentGlobalID |-> "V1", delete_grabsample |-> "no",
                 lab |-> lab, anc_method |-> NULL, anc |-> anc]>>]

InitE2E ==
    /\ NoExchange
    /\ \E temp \in {"15.2", NULL}, status \in {"verified", "in_review"},
          del \in {NULL, "no", "yes"}, withFlow \in BOOLEAN :
          tbl_main = E2EMain(temp, status, del, withFlow)
    /\ \E withYsi \in BOOLEAN : tbl_ysi = E2EYsi(withYsi)
    /\ \E lab \in {"AL", "CUE", NULL}, anc \in {"120", NULL} :
          tbl_grabsample = E2EGrab(lab, anc)
    /\ res = <<>>
    /\ run = "stages"
    /\ include_deletes = FALSE
    /\ df = <<>>
    /\ pc = "tfm_start"
    /\ aux = "none"

\* transform.py 480-542 applied to the typed table
E2EAssignActivityId ==
    /\ pc = "tfm_typed"
    /\ run = "stages"
    /\ aux' = ActStatus(df)
    /\ pc' = IF ActStatus(df) = "ok" THEN "e2e_done" ELSE "e2e_abort"
    /\ df' = IF ActStatus(df) = "ok" THEN ActAssigned(df) ELSE df
    /\ UNCHANGED <<inputs, outputs>>

NextE2E ==
    \/ TfmFlatten
    \/ TfmTypes
    \/ E2EAssignActivityId

SpecE2E == InitE2E /\ [][NextE2E]_vars

C5_Scenario ==
    /\ tbl_main = E2EMain("15.2", "verified", "no", FALSE)
    /\ tbl_ysi = E2EYsi(FALSE)
    /\ tbl_grabsample = E2EGrab("AL", "120")

\* C5: on one header row for V1 (air_temperature "15.2", verified, not
\* deleted) and one lab-sample row for V1 (lab "AL", anc "120") the flatten,
\* type and activity-id stages complete and yield exactly two triples: a float
\* site observation with numeric value 15.2 and a lab-chemistry triple, each
\* with a non-null activity_id, the two ids different.
C5_EndToEnd ==
    C5_Scenario =>
        /\ pc # "e2e_abort"
        /\ pc = "e2e_done" =>
              /\ Len(df) = 2
              /\ \E i, j \in DOMAIN df :
                    /\ df[i]["data_type"] = "float"
                    /\ df[i]["num_result"] = "15.2"
                    /\ df[i]["grouping_var"] = "NCRN_WQ_HABINV"
                    /\ df[j]["grouping_var"] = "NCRN_WQ_WCHEM"
                    /\ df[i]["activity_id"] # NULL
                    /\ df[j]["activity_id"] # NULL
                    /\ df[i]["activity_id"] # df[j]["activity_id"]

(***************************************************************************)
(* SpecLab: _transform up to the instrument column on lab-sample rows that *)
(* draw their lab, their recorded anc_method and their delete indicator.   *)
(* The single visit is dated before or inside the usage span of the ANC    *)
(* method of the history log, when the log has one.                        *)
(***************************************************************************)
NumSamples == 2

SampleIds == {"S" \o ToString(i) : i \in 1..NumSamples}

LabVals == {"CUE", "AL"}

AncMethods == {NULL, "usgs_f3_gran"}

LabGrab(g, lab, anc_method, del) ==
    [GlobalID |-> g, ParentGlobalID |-> "V1", delete_grabsample |-> del,
     lab |-> lab, anc_method |-> anc_method, anc |-> "120", tp |-> "0.02",
     orthophosphate |-> "0.01", ammonia |-> "0.1"]

LabLogs ==
    {RunLog,
     <<LogEntry(<<"ANC", "EPA 310.2">>, <<20161005, 9>>),
       LogEntry(<<"ANC", "EPA 310.2">>, <<20240501, 0>>)>>}

InitLab ==
    /\ NoExchange
    /\ \E date \in {20100315, 20200610} :
          tbl_main = [cols |-> MainCols,
                      rows |-> <<RunVisit("V1", "no", "verified", date)>>]
    /\ tbl_ysi = [cols |-> YsiCols, rows |-> <<RunYsi("Y1", "V1", "no")>>]
    /\ \E labs \in [SampleIds -> LabVals], ms \in [SampleIds -> AncMethods],
          dels \in [SampleIds -> {"no", "yes"}] :
          tbl_grabsample =
            [cols |-> GrabCols,
             rows |-> [i \in 1..NumSamples |->
                         LET g == "S" \o ToString(i)
                         IN  LabGrab(g, labs[g], ms[g], dels[g])]]
    /\ res \in LabLogs
    /\ run = "transform"
    /\ include_deletes = FALSE
    /\ df = <<>>
    /\ pc = "tfm_start"
    /\ aux = "none"

NextLab ==
    \/ TfmFlatten
    \/ TfmTypes
    \/ TfmFilter
    \/ TfmInstrument

SpecLab == InitLab /\ [][NextLab]_vars

\* the lab-sample rows that are not marked deleted, and the anc triples of one
C12_KeptSamples ==
    {i \in DOMAIN tbl_grabsample.rows :
        Lower(tbl_grabsample.rows[i]["delete_grabsample"]) # "yes"}

C12_AncTriples(g) ==
    {i \in DOMAIN df : df[i]["GlobalID"] = g /\ df[i]["Characteristic_Name"] = "anc"}

\* C12 (as the code has it): after instrument resolution the anc triple of a
\* lab-sample row of lab CUE that recorded an anc_method has the recorded
\* method as its instrument, whatever a windowed or hard-coded rule assigned;
\* the anc_method recorded on a row of another lab is dropped when the row is
\* unpivoted and its triple carries none.
C12_CueMethodWins ==
    pc = "tfm_done" =>
        \A k \in C12_KeptSamples :
            LET g == tbl_grabsample.rows[k]
            IN  /\ C12_AncTriples(g["GlobalID"]) # {}
                /\ \A i \in C12_AncTriples(g["GlobalID"]) :
                      IF g["lab"] = "CUE"
                      THEN g["anc_method"] # NULL => df[i]["instrument"] = g["anc_method"]
                      ELSE df[i]["anc_method"] = NULL

\* C12 (as stated): the anc triple of every lab-sample row that recorded an
\* anc_method has the recorded method as its instrument, whatever the lab.
C12_RecordedMethodWins ==
    pc = "tfm_done" =>
        \A k \in C12_KeptSamples :
            LET g == tbl_grabsample.rows[k]
            IN  g["anc_method"] # NULL =>
                  \A i \in C12_AncTriples(g["GlobalID"]) :
                      df[i]["instrument"] = g["anc_method"]

\* a CUE row with a recorded method, dated inside the span of the logged ANC
\* method, next to a row of another lab with the same recorded method
C12_Witness ==
    /\ pc = "tfm_done"
    /\ HistoryWindows(res) =
          <<Rule("window", "anc", "EPA 310.2", TRUE, 2016100509, TRUE, 2024050100)>>
    /\ tbl_main.rows[1]["activity_start_date"] = 20200610
    /\ \E i, j \in DOMAIN df :
          /\ df[i]["Characteristic_Name"] = "anc"
          /\ df[i]["lab"] = "CUE"
          /\ df[i]["anc_method"] = "usgs_f3_gran"
          /\ df[i]["instrument"] = "usgs_f3_gran"
          /\ df[j]["Characteristic_Name"] = "anc"
          /\ df[j]["lab"] = "AL"
          /\ df[j]["instrument"] = "EPA 310.2"
          /\ tbl_grabsample.rows[2]["anc_method"] = "usgs_f3_gran"
          /\ tbl_grabsample.rows[2]["lab"] = "AL"

(***************************************************************************)
(* SpecSoft: _soft_constraints on typed tables and bounds files.  The      *)
(* table holds two pH rows in review, one inside the bounds of its month   *)
(* and one on the upper bound, followed by one freely drawn row.  The      *)
(* bounds file (kept in aux) has at most MaxEntries entries, no two for    *)
(* the same location, year and month; a cell of it may be empty.           *)
(***************************************************************************)
MaxEntries == 2

SoftRow(g, c, num, status, date, flag) ==
    [GlobalID |-> g, location_id |-> "NCRN_LOC", activity_start_date |-> date,
     Characteristic_Name |-> c, review_status |-> status, data_quality_flag |-> flag,
     Result_Text |-> num,
     data_type |-> IF c \in DOMAIN TypeLookup THEN TypeLookup[c][1] ELSE NULL,
     num_result |-> IF c = "ph" THEN num ELSE NULL,
     str_result |-> IF c = "ph" THEN NULL ELSE num]

SoftFixedRows ==
    << SoftRow("Y1", "ph", "7", "in_review", 20200610, NULL),
       SoftRow("Y2", "ph", "8.5", "in_review", 20200610, NULL) >>

SoftFreeRows ==
    {SoftRow("Y3", "ph", n, st, d, f) :
        n \in {NULL, "6.4", "6.5", "7.25", "8.50", "8.6"},
        st \in {"verified", "in_review", NULL},
        d \in {20200610, 20201110},
        f \in {NULL, "present_not_on_datasheet"}}
    \cup {SoftRow("V1", "weather_condition", "clear", st, d, NULL) :
        st \in {"verified", "in_review"}, d \in {20200610, 20201110}}

\* the key and the month of an entry; the second key has the month unpadded
SoftKeys == {<<"NCRN_LOC202006", "6">>, <<"NCRN_LOC20206", "6">>, <<"NCRN_LOC202011", "11">>}

SoftBounds == {<<"6.5", "8.5">>, <<NULL, "8.5">>, <<"6.5", NULL>>}

SoftEntry(k, b) ==
    [key |-> k[1], location_id |-> "NCRN_LOC", month |-> k[2], year |-> "2020",
     low_ph |-> b[1], high_ph |-> b[2]]

SoftTables ==
    {[cols |-> SoftIdCols \o <<"low_ph", "high_ph">>, rows |-> q] :
        q \in {q \in UNION {[1..n -> {SoftEntry(k, b) : k \in SoftKeys, b \in SoftBounds}] :
                               n \in 0..MaxEntries} :
                  \A i, j \in DOMAIN q : i # j => q[i]["key"] # q[j]["key"]}}

InitSoft ==
    /\ NoExchange
    /\ tbl_main = <<>>
    /\ tbl_ysi = <<>>
    /\ tbl_grabsample = <<>>
    /\ res = <<>>
    /\ include_deletes = FALSE
    /\ run = "none"
    /\ \E r \in SoftFreeRows : df = Append(SoftFixedRows, r)
    /\ aux \in SoftTables
    /\ pc = "soft_ready"

\* transform.py 544-593
SoftStep ==
    /\ pc = "soft_ready"
    /\ df' = SoftConstraints(df, aux)
    /\ pc' = "soft_done"
    /\ UNCHANGED <<aux, inputs, outputs>>

NextSoft == SoftStep

SpecSoft == InitSoft /\ [][NextSoft]_vars

\* C13: after soft-constraint flagging a row of review status verified has no
\* warning, a row that is not numeric has none, and a numeric row that is not
\* verified and has bounds low < high has the 'below' warning when its value
\* is <= low, the 'above' warning when its value is >= high and no warning
\* when the value lies strictly between.
C13_Warnings ==
    pc = "soft_done" =>
        \A i \in DOMAIN df :
            LET t == df[i]
                v == ToFloat(t["num_result"])
                lo == ToFloat(t["low"])
                hi == ToFloat(t["high"])
            IN  /\ t["review_status"] = "verified" => t["result_warning"] = NULL
                /\ t["data_type"] # "float" => t["result_warning"] = NULL
                /\ ( /\ t["data_type"] = "float"
                     /\ t["num_result"] # NULL
                     /\ t["review_status"] # "verified"
                     /\ t["low"] # NULL
                     /\ t["high"] # NULL
                     /\ lo < hi )
                   => /\ v <= lo => t["result_warning"] = "result is below soft constraint"
                      /\ v >= hi => t["result_warning"] = "result is above soft constraint"
                      /\ (lo < v /\ v < hi) => t["result_warning"] = NULL

\* a value on the lower bound, one on the upper bound and one between
C13_Witness ==
    /\ pc = "soft_done"
    /\ Len(df) = 3
    /\ df[1]["low"] = "6.5" /\ df[1]["high"] = "8.5" /\ df[1]["result_warning"] = NULL
    /\ df[2]["result_warning"] = "result is above soft constraint"
    /\ df[3]["num_result"] = "6.5"
    /\ df[3]["low"] = "6.5"
    /\ df[3]["review_status"] = "in_review"
    /\ df[3]["result_warning"] = "result is below soft constraint"

MaxTriples == 2

TypeChars == {"ph", "rain_last_24", "flow_status", "doc"}

TypeTexts == {NULL, "7.1", "yes"}

TypeRow(i, c, x) ==
    [GlobalID |-> "T" \o ToString(i), Characteristic_Name |-> c, Result_Text |-> x,
     data_quality_flag |-> NULL]

InitType ==
    /\ NoExchange
    /\ tbl_main = <<>>
    /\ tbl_ysi = <<>>
    /\ tbl_grabsample = <<>>
    /\ res = <<>>
    /\ include_deletes = FALSE
    /\ run = "none"
    /\ \E n \in 0..MaxTriples :
          \E cs \in [1..n -> TypeChars], xs \in [1..n -> TypeTexts] :
              df = [i \in 1..n |-> TypeRow(i, cs[i], xs[i])]
    /\ aux = "none"
    /\ pc = "type_ready"

\* transform.py 26-38
TypeStep ==
    /\ pc = "type_ready"
    /\ df' = Typed(df)
    /\ pc' = "type_done"
    /\ UNCHANGED <<aux, inputs, outputs>>

NextType == TypeStep

SpecType == InitType /\ [][NextType]_vars

\* C15: typing returns one triple per input triple.  Its numeric value is the
\* raw text when the registry type of the characteristic is float and is null
\* otherwise; its text value is the raw text when the registry type is bool
\* or string and is null otherwise; the two are never both populated; a
\* triple of a characteristic without registry entry has a null data type and
\* neither typed value, and is in the returned table.
C15_TypedValues ==
    [][(pc = "type_ready" /\ pc' = "type_done") =>
        /\ Len(df') = Len(df)
        /\ \A i \in DOMAIN df :
              \E j \in DOMAIN df' :
                  LET c == df[i]["Characteristic_Name"]
                      x == df[i]["Result_Text"]
                      t == df'[j]
                  IN  /\ t["GlobalID"] = df[i]["GlobalID"]
                      /\ t["Characteristic_Name"] = c
                      /\ t["Result_Text"] = x
                      /\ t["num_result"] # NULL => (t["data_type"] = "float" /\ t["num_result"] = x)
                      /\ t["str_result"] # NULL =>
                            (t["data_type"] \in {"bool", "string"} /\ t["str_result"] = x)
                      /\ t["data_type"] = "float" => t["num_result"] = x
                      /\ t["data_type"] \in {"bool", "string"} => t["str_result"] = x
                      /\ ~(t["num_result"] # NULL /\ t["str_result"] # NULL)
                      /\ c = "ph" => t["data_type"] = "float"
                      /\ c = "rain_last_24" => t["data_type"] = "bool"
                      /\ c = "flow_status" => t["data_type"] = "string"
                      /\ c = "doc" =>
                            /\ t["data_type"] = NULL
                            /\ t["num_result"] = NULL
                            /\ t["str_result"] = NULL
      ]_vars

\* a numeric triple next to a triple of the unknown characteristic
C15_Witness ==
    /\ pc = "type_done"
    /\ Len(df) = 2
    /\ df[1]["Characteristic_Name"] = "ph"
    /\ df[1]["num_result"] = "7.1"
    /\ df[1]["str_result"] = NULL
    /\ df[2]["Characteristic_Name"] = "doc"
    /\ df[2]["Result_Text"] = "7.1"
    /\ df[2]["data_type"] = NULL
    /\ df[2]["num_result"] = NULL
    /\ df[2]["str_result"] = NULL

(***************************************************************************)
(* wqp_wqx after _assign_activity_id (utils.py 882-1023): the crosswalk of  *)
(* the table to the columns of the exchange schema.                        *)
(***************************************************************************)
\* transform.py 1405-1433
SpeciationLu ==
    [tp |-> <<"as P", "Unfiltered">>,
     ammonia |-> <<"as N", "Filtered, Lab">>,
     nitrate |-> <<"as N", "Filtered, Lab">>,
     tn |-> <<"as N", "Unfiltered">>,
     orthophosphate |-> <<"as PO4", "Filtered, Lab">>,
     tdn |-> <<"as N", "Filtered, Lab">>,
     tdp |-> <<"as P", "Filtered, Lab">>]

AddMethodSpeciationName(d) ==
    MapSeq(d, LAMBDA t :
        LET known == t["Characteristic_Name"] \in DOMAIN SpeciationLu
        IN  With(With(t, "MethodSpeciationName",
                      IF known THEN SpeciationLu[t["Characteristic_Name"]][1] ELSE NULL),
                 "ResultSampleFractionText",
                 IF known THEN SpeciationLu[t["Characteristic_Name"]][2] ELSE NULL))

\* utils.py 893-914: exchange column, column of the table
XwalkCols ==
    << <<"ActivityIdentifier", "activity_id">>,
       <<"ActivityMediaSubdivisionName", "activity_group_id">>,
       <<"ActivityStartDate", "activity_start_date">>,
       <<"ActivityStartTime/Time", "activity_start_time">>,
       <<"ActivityStartTime/TimeZoneCode", "timezone">>,
       <<"MonitoringLocationIdentifier", "location_id">>,
       <<"MonitoringLocationName", "ncrn_site_name">>,
       <<"ActivityLocation/LatitudeMeasure", "ncrn_latitude">>,
       <<"ActivityLocation/LongitudeMeasure", "ncrn_longitude">>,
       <<"ResultDetectionConditionText", "data_quality_flag">>,
       <<"CharacteristicName", "Characteristic_Name">>,
       <<"ResultMeasureValue", "Result_Text">>,
       <<"ResultMeasure/MeasureUnitCode", "Result_Unit">>,
       <<"ResultAnalyticalMethod/MethodIdentifier", "grouping_var">>,
       <<"LaboratoryName", "lab">>,
       <<"MethodSpeciationName", "MethodSpeciationName">>,
       <<"ResultSampleFractionText", "ResultSampleFractionText">>,
       <<"SampleCollectionEquipmentName", "instrument">> >>

\* utils.py 915-983: exchange column, constant value (None and NaN are NULL); the
\* value of LastUpdated is the clock reading of line 980
XwalkConstants ==
    << <<"OrganizationIdentifier", "NCRN">>,
       <<"OrganizationFormalName", "National Park Service Inventory and Monitoring Division">>,
       <<"ActivityCommentText", NULL>>,
       <<"ActivityEndDate", NULL>>,
       <<"ActivityEndTime/Time", NULL>>,
       <<"ActivityEndTime/TimeZoneCode", NULL>>,
       <<"ActivityRelativeDepthName", NULL>>,
       <<"ActivityDepthHeightMeasure/MeasureValue", NULL>>,
       <<"ActivityDepthHeightMeasure/MeasureUnitCode", NULL>>,
       <<"ActivityDepthAltitudeReferencePointText", NULL>>,
       <<"ActivityTopDepthHeightMeasure/MeasureValue", NULL>>,
       <<"ActivityTopDepthHeightMeasure/MeasureUnitCode", NULL>>,
       <<"ActivityBottomDepthHeightMeasure/MeasureValue", NULL>>,
       <<"ActivityBottomDepthHeightMeasure/MeasureUnitCode", NULL>>,
       <<"ProjectIdentifier", "USNPS NCRN Perennial stream water monitoring">>,
       <<"ProjectName", "USNPS NCRN Perennial stream water monitoring">>,
       <<"ActivityConductingOrganizationText", "USNPS National Capital Region Inventory and Monitoring">>,
       <<"SampleAquifer", NULL>>,
       <<"HydrologicCondition", NULL>>,
       <<"HydrologicEvent", NULL>>,
       <<"SampleCollectionMethod/MethodIdentifier", NULL>>,
       <<"SampleCollectionMethod/MethodIdentifierContext", NULL>>,
       <<"SampleCollectionMethod/MethodName", NULL>>,
       <<"SampleCollectionMethod/MethodDescriptionText", NULL>>,
       <<"MeasureQualifierCode", NULL>>,
       <<"StatisticalBaseCode", NULL>>,
       <<"ResultWeightBasisText", NULL>>,
       <<"ResultTemperatureBasisText", NULL>>,
       <<"ResultParticleSizeBasisText", NULL>>,
       <<"DataQuality/PrecisionValue", NULL>>,
       <<"DataQuality/BiasValue", NULL>>,
       <<"DataQuality/ConfidenceIntervalValue", NULL>>,
       <<"DataQuality/UpperConfidenceLimitValue", NULL>>,
       <<"DataQuality/LowerConfidenceLimitValue", NULL>>,
       <<"ResultCommentText", NULL>>,
       <<"ResultStatusIdentifier", "Final">>,
       <<"USGSPCode", NULL>>,
       <<"ResultDepthHeightMeasure/MeasureValue", NULL>>,
       <<"ResultDepthHeightMeasure/MeasureUnitCode", NULL>>,
       <<"ResultDepthAltitudeReferencePointText", NULL>>,
       <<"SubjectTaxonomicName", NULL>>,
       <<"SampleTissueAnatomyName", NULL>>,
       <<"BinaryObjectFileName", NULL>>,
       <<"BinaryObjectFileTypeCode", NULL>>,
       <<"ResultFileUrl", NULL>>,
       <<"ResultAnalyticalMethod/MethodIdentifierContext", NULL>>,
       <<"ResultAnalyticalMethod/MethodName", NULL>>,
       <<"ResultAnalyticalMethod/MethodUrl", NULL>>,
       <<"ResultAnalyticalMethod/MethodDescriptionText", NULL>>,
       <<"AnalysisStartDate", NULL>>,
       <<"ResultLaboratoryCommentText", NULL>>,
       <<"ResultDetectionQuantitationLimitUrl", NULL>>,
       <<"DetectionQuantitationLimitTypeName", NULL>>,
       <<"DetectionQuantitationLimitMeasure/MeasureValue", NULL>>,
       <<"DetectionQuantitationLimitMeasure/MeasureUnitCode", NULL>>,
       <<"LabSamplePreparationUrl", NULL>>,
       <<"LastUpdated", "dt.datetime.now()">>,
       <<"ProviderName", "National Park Service Inventory and Monitoring Division">>,
       <<"ResultTimeBasisText", NULL>> >>

\* utils.py 984-990
XwalkCalculated ==
    <<"ResultIdentifier", "ActivityMediaName", "ActivityTypeCode", "ResultValueTypeName">>

\* utils.py 1047-1078
WqpCharNames ==
    [air_temperature |-> "Temperature, air",
     discharge |-> "Base flow discharge",
     mean_crossection_depth |-> "Cross-Section Depth",
     water_temperature |-> "Temperature, water",
     ph |-> "pH",
     specific_conductance |-> "Specific conductance",
     do_concentration |-> "Dissolved oxygen (DO)",
     do_saturation |-> "Dissolved oxygen saturation",
     anc |-> "Acid Neutralizing Capacity (ANC)",
     stream_physical_appearance |-> "Water appearance (text)",
     tp |-> "Total Phosphorus, mixed forms",
     ammonia |-> "Ammonia",
     nitrate |-> "Nitrate",
     wetted_width |-> "Wetted Width",
     mean_velocity |-> "Velocity - stream",
     barometric_pressure |-> "Barometric pressure",
     conductivity |-> "Conductivity",
     salinity |-> "Salinity",
     tds |-> "Total dissolved solids",
     tn |-> "Total Nitrogen, mixed forms",
     orthophosphate |-> "Orthophosphate",
     tdn |-> "Total Dissolved Nitrogen, mixed forms",
     tdp |-> "Total Dissolved Phosphorus, mixed forms",
     weather_condition |-> "Weather condition (WMO code 4501) (choice list)",
     rain_last_24 |-> "RBP2, Weather Condition, Heavy Rain in Last 7 Days, Y/N (choice list)",
     algae_cover_percent |-> "Substrate algae, % (choice list)",
     algae_description |-> "Substrate algae color",
     flow_status |-> "Stream flow (choice list)",
     turbidity |-> "Turbidity"]

\* utils.py 885-887
ExampleColumns(raw) == SelectSeq(raw, LAMBDA c : c # "Unnamed: 0")

XwalkKeys ==
    MapSeq(XwalkCols, LAMBDA kv : kv[1]) \o MapSeq(XwalkConstants, LAMBDA kv : kv[1])
        \o XwalkCalculated

\* utils.py 992 with the check left out
XwalkCountFailsMutant(cols) == FALSE

\* utils.py 992: the sanity check that the crosswalk is complete
XwalkCountFails(cols) ==
    Len(XwalkCols) + Len(XwalkConstants) + Len(XwalkCalculated) # Len(cols)

\* utils.py 995-1012: the value of exchange column k for row i of the table
XwalkValue(d, i, k, now) ==
    LET direct == SelectSeq(XwalkCols, LAMBDA kv : kv[1] = k)
        const == SelectSeq(XwalkConstants, LAMBDA kv : kv[1] = k)
    IN  IF k = "ResultIdentifier" THEN i - 1
        ELSE IF k = "ActivityMediaName"
             THEN IF Get(d[i], "Characteristic_Name")
                        \in {"air_temperature", "barometric_pressure", "weather_condition"}
                  THEN "Air" ELSE "Water"
        ELSE IF k = "ActivityTypeCode"
             THEN IF Get(d[i], "grouping_var") = "NCRN_WQ_WCHEM"
                  THEN "Sample-Routine" ELSE "Field Msr/Obs"
        ELSE IF k = "ResultValueTypeName"
             THEN IF Get(d[i], "instrument") = "calculated_result"
                  THEN "Calculated" ELSE "Actual"
        ELSE IF k = "LastUpdated" THEN now
        ELSE IF const # <<>> THEN const[1][2]
        ELSE IF direct # <<>> THEN Get(d[i], direct[1][2])
        ELSE NULL

\* utils.py 889-1012: one exchange row per row of the table, with the columns
\* of the template and of the crosswalk
Crosswalk(d, cols, now) ==
    [i \in 1..Len(d) |->
        [k \in Range(cols) \cup Range(XwalkKeys) |-> XwalkValue(d, i, k, now)]]

\* utils.py 1080-1081: a characteristic without an exchange name fails the check
RecodeFails(w) ==
    \E i \in DOMAIN w : w[i]["CharacteristicName"] \notin DOMAIN WqpCharNames

\* utils.py 1030-1094
RecodeWqpChars(w) ==
    MapSeq(w, LAMBDA r :
        With(r, "CharacteristicName", WqpCharNames[r["CharacteristicName"]]))

(***************************************************************************)
(* _wqp_metadata_site_incongruency (utils.py 747-831): the sites of the    *)
(* companion metadata table are reconciled with the sites of the exchange  *)
(* data.  df holds the exchange data, res the metadata as read and aux the *)
(* metadata being rebuilt, the template, the park lookup and the sites     *)
(* still to add.  Of the columns that the template copies, Network,        *)
(* DataName, CharacteristicName and Units are carried.  The rows stay in   *)
(* the order in which they were appended; nothing in the function reads    *)
(* the order that sort_values leaves.                                      *)
(***************************************************************************)
\* DataFrame.drop_duplicates(col): the first row of every value stays
DropDuplicates(d, col) ==
    LET idx == SelectSeq([i \in 1..Len(d) |-> i],
                         LAMBDA i : \A j \in 1..(i - 1) : d[j][col] # d[i][col])
    IN  MapSeq(idx, LAMBDA i : d[i])

\* str.split(sep) for a separator of one character
RECURSIVE Split(_, _)
Split(s, sep) ==
    LET hits == {i \in 1..Len(s) : SubSeq(s, i, i) = sep}
    IN  IF hits = {} THEN <<s>>
        ELSE LET i == IntMin(hits)
             IN  <<SubSeq(s, 1, i - 1)>> \o Split(SubSeq(s, i + 1, Len(s)), sep)

LatCol == "ActivityLocation/LatitudeMeasure"

LonCol == "ActivityLocation/LongitudeMeasure"

\* Series.unique() of a column
UniqueOf(d, c) == Unique(MapSeq(d, LAMBDA r : r[c]))

SiteDeletesMutant(d, md) == <<>>

\* line 750
SiteDeletes(d, md) ==
    SelectSeq(UniqueOf(md, "SiteCodeWQX"),
              LAMBDA x : x \notin Range(UniqueOf(d, "MonitoringLocationIdentifier")))

\* lines 751-752
SitesKept(d, md) ==
    SelectSeq(md, LAMBDA r : r["SiteCodeWQX"] \notin Range(SiteDeletes(d, md)))

\* line 754
SiteAdds(d, md) ==
    SelectSeq(UniqueOf(d, "MonitoringLocationIdentifier"),
              LAMBDA x : x \notin Range(UniqueOf(md, "SiteCodeWQX")))

\* lines 733-743: unique()[0] of a table without rows raises IndexError
MetadataTemplateFails(md) == md = <<>>

\* lines 731-745: the rows of the first site, with the copied columns only
MetadataTemplate(md) ==
    MapSeq(SelectSeq(md, LAMBDA r : r["SiteCodeWQX"] = UniqueOf(md, "SiteCodeWQX")[1]),
           LAMBDA r : [c \in DOMAIN r |->
                          IF c \in {"Network", "DataName", "CharacteristicName", "Units"}
                          THEN r[c] ELSE NULL])

\* line 759
ParkLookup(md) == DropDuplicates(md, "ShortName")

\* lines 774-777: the park code is the second part of the site code
ParkCodeFails(a) == Len(Split(a, "_")) < 2

\* lines 763-821: the template filled in for site a; typed holds what the
\* operator enters at the prompts of lines 798-816
FilledTemplate(d, template, lu, a, typed) ==
    LET rows == SelectSeq(d, LAMBDA r : r["MonitoringLocationIdentifier"] = a)
        sitecodes == UniqueOf(rows, "MonitoringLocationIdentifier")
        sitecode == IF Len(sitecodes) = 1 THEN sitecodes[1] ELSE typed.sitecode
        parkcode == Split(sitecode, "_")[2]
        sitenames == UniqueOf(rows, "MonitoringLocationName")
        sitename == IF Len(sitenames) = 1 THEN sitenames[1] ELSE typed.sitename
        parks == SelectSeq(lu, LAMBDA r : r["ParkCode"] = parkcode)
        lats == UniqueOf(rows, LatCol)
        lons == UniqueOf(rows, LonCol)
        filled == [SiteCode |-> sitecode, SiteCodeWQX |-> sitecode, ParkCode |-> parkcode,
                   SiteName |-> sitename,
                   ShortName |-> IF parks # <<>> THEN parks[1]["ShortName"]
                                 ELSE typed.shortname,
                   LongName |-> IF parks # <<>> THEN parks[1]["LongName"]
                                ELSE typed.longname,
                   Lat |-> IF Len(lats) = 1 /\ lats[1] # NULL THEN lats[1] ELSE typed.lat,
                   Long |-> IF Len(lons) = 1 /\ lons[1] # NULL THEN lons[1] ELSE typed.lon]
    IN  MapSeq(template, LAMBDA r :
            [c \in DOMAIN r |-> IF c \in DOMAIN filled THEN filled[c] ELSE r[c]])

\* a row of data/MetaData.csv
MdRow(site, char) ==
    [Network |-> "NCRN", SiteCode |-> site, SiteCodeWQX |-> site,
     SiteName |-> "Site of " \o site, ParkCode |-> Split(site, "_")[2],
     ShortName |-> "Park " \o Split(site, "_")[2],
     LongName |-> "National Park " \o Split(site, "_")[2],
     Lat |-> "38.5", Long |-> "-77.5", DataName |-> char,
     CharacteristicName |-> char, Units |-> "pH units"]

\* lines 761-829: the loop over the sites to add
RECURSIVE AddSites(_, _, _, _, _, _)
AddSites(d, md, template, lu, adds, typed) ==
    IF adds = <<>> THEN md
    ELSE AddSites(d, md \o FilledTemplate(d, template, lu, Head(adds), typed),
                  template, lu, Tail(adds), typed)

\* lines 747-831 raise IndexError
SiteIncongruencyFails(d, md) ==
    \/ MetadataTemplateFails(SitesKept(d, md))
    \/ \E a \in Range(SiteAdds(d, SitesKept(d, md))) : ParkCodeFails(a)

\* lines 747-831
SiteIncongruency(d, md, typed) ==
    LET kept == SitesKept(d, md)
    IN  AddSites(d, kept, MetadataTemplate(kept), ParkLookup(kept), SiteAdds(d, kept), typed)

\* data/MetaData.csv of the exchange runs
MetaDataCsv == <<MdRow("NCRN_ANTI_D", "pH"), MdRow("NCRN_LOC", "pH")>>

\* what the operator enters at the prompts of lines 798-816
SiteTyped ==
    [sitecode : {"NCRN_TYPE_D"}, sitename : {"typed name"}, shortname : {"typed park"},
     longname : {"typed long name"}, lat : {"39.0"}, lon : {"-77.0"}]

(***************************************************************************)
(* SpecXwalk: the exchange projection of wqp_wqx from the table that       *)
(* _assign_activity_id returned.  The relations hold the verified visit V1 *)
(* with its children and at most one more visit; the template file has the *)
(* columns of the crosswalk, those and an index column, one column less,   *)
(* or one more.                                                            *)
(***************************************************************************)
TemplateColumns ==
    {XwalkKeys, <<"Unnamed: 0">> \o XwalkKeys, Tail(XwalkKeys),
     Append(XwalkKeys, "ResultExtraText")}

Clock == {"2024-07-10 09:00:00", "2024-07-11 09:00:00"}

XwalkMains ==
    {[cols |-> MainCols, rows |-> <<RunVisit("V1", "no", "verified", 20200610)>>]}
    \cup {[cols |-> MainCols,
           rows |-> <<RunVisit("V1", "no", "verified", 20200610),
                      RunVisit("V2", del, st, 20100315)>>] :
             del \in {"no", "yes"}, st \in {"verified", "in_review"}}

\* utils.py 877-881 on relations that they complete on
ExchangeTable(main, ysi, grab, log) ==
    ActAssigned(WqpQc(QualityControl(
        Instrumented(Filtered(Typed(Flattened(main, ysi, grab, FALSE))), log))))

InitXwalk ==
    /\ tbl_main \in XwalkMains
    /\ tbl_ysi = [cols |-> YsiCols,
                  rows |-> <<RunYsi("Y1", "V1", "no"), RunYsi("Y2", "V2", "no")>>]
    /\ tbl_grabsample = [cols |-> GrabCols,
                         rows |-> <<RunGrab("S1", "V1", "no"), RunGrab("S2", "V2", "no")>>]
    /\ res = RunLog
    /\ include_deletes = FALSE
    /\ run = "exchange"
    /\ example \in TemplateColumns
    /\ test_run \in BOOLEAN
    /\ df = ExchangeTable(tbl_main, tbl_ysi, tbl_grabsample, res)
    /\ wqp = <<>>
    /\ written = <<>>
    /\ aux = "ok"
    /\ pc = "wqx_done"

\* utils.py 882
WqxSpeciation ==
    /\ pc = "wqx_done"
    /\ df' = AddMethodSpeciationName(df)
    /\ pc' = "wqx_spec"
    /\ UNCHANGED <<aux, wqp, written, inputs>>

\* utils.py 884-992: the template is read, the empty exchange table is made,
\* the crosswalk is built (it reads the clock) and its size is checked
XwalkAssert ==
    /\ pc = "wqx_spec"
    /\ \E now \in Clock : aux' = now
    /\ wqp' = <<>>
    /\ pc' = IF XwalkCountFails(ExampleColumns(example)) THEN "xw_abort" ELSE "xw_checked"
    /\ UNCHANGED <<df, written, inputs>>

\* utils.py 994-1012
XwalkAssign ==
    /\ pc = "xw_checked"
    /\ wqp' = Crosswalk(df, ExampleColumns(example), aux)
    /\ pc' = "xw_assigned"
    /\ UNCHANGED <<df, aux, written, inputs>>

\* utils.py 1014
XwalkRecode ==
    /\ pc = "xw_assigned"
    /\ IF RecodeFails(wqp)
       THEN pc' = "xw_recode_abort" /\ wqp' = wqp
       ELSE pc' = "xw_recoded" /\ wqp' = RecodeWqpChars(wqp)
    /\ UNCHANGED <<df, aux, written, inputs>>

\* utils.py 1016-1021 with the test of line 1017 left out
XwalkWriteMutant ==
    /\ pc = "xw_recoded"
    /\ written' = <<[file |-> "wqp.csv", table |-> wqp],
                    [file |-> "wqp_ncrnwater_metadata.csv", table |-> MetaDataCsv]>>
    /\ pc' = "xw_done"
    /\ UNCHANGED <<df, aux, wqp, inputs>>

\* utils.py 1016-1021 and 1026: unless the run is a dry run the exchange file
\* is written and wqp_metadata (302-342) writes the metadata file next to it,
\* from the exchange file without the chlorine rows.  Of wqp_metadata the site
\* reconciliation is carried; the reconciliation of the characteristics and
\* the checks of lines 331-333 are not.
XwalkWrite ==
    /\ pc = "xw_recoded"
    /\ IF test_run
       THEN /\ written' = written
            /\ pc' = "xw_done"
       ELSE LET data == SelectSeq(wqp, LAMBDA r : r["CharacteristicName"] # "Chlorine")
                csv == [file |-> "wqp.csv", table |-> wqp]
            IN  IF SiteIncongruencyFails(data, MetaDataCsv)
                THEN /\ written' = Append(written, csv)
                     /\ pc' = "md_abort"
                ELSE /\ \E typed \in SiteTyped :
                          written' = written \o
                              <<csv, [file |-> "wqp_ncrnwater_metadata.csv",
                                      table |-> SiteIncongruency(data, MetaDataCsv, typed)]>>
                     /\ pc' = "xw_done"
    /\ UNCHANGED <<df, aux, wqp, inputs>>

NextXwalk ==
    \/ WqxSpeciation
    \/ XwalkAssert
    \/ XwalkAssign
    \/ XwalkRecode
    \/ XwalkWrite

SpecXwalk == InitXwalk /\ [][NextXwalk]_vars

\* the template does not have as many columns as the crosswalk has entries
C16_Incomplete == Len(ExampleColumns(example)) # 18 + 59 + 4

\* C16: the size check of the crosswalk is made before any exchange column is
\* populated: when the template has not as many columns as the crosswalk has
\* entries, the run stops at the check, no exchange row is ever produced and
\* no file is written; a populated exchange table exists only after the check
\* has passed.
C16_AbortBeforePopulating ==
    /\ C16_Incomplete =>
          /\ pc \in {"wqx_done", "wqx_spec", "xw_abort"}
          /\ wqp = <<>>
          /\ written = <<>>
    /\ pc = "xw_abort" => C16_Incomplete
    /\ wqp # <<>> => ~C16_Incomplete

\* the run has stopped at the check on a template that lacks a column, with a
\* table of rows to export and writing switched on
C16_Witness ==
    /\ pc = "xw_abort"
    /\ example = Tail(XwalkKeys)
    /\ test_run = FALSE
    /\ Len(df) > 0
    /\ wqp = <<>>
    /\ written = <<>>

(***************************************************************************)
(* The advisory checks of _quality_control (transform.py 1088-1403).  What *)
(* the pass prints is kept as a sequence of reports, one per warning: the  *)
(* check, the field it names, the percentage, the count of offending rows  *)
(* and the count of visits it states (-1 when the message states none),    *)
(* and the key columns of the rows it prints.  The table holds the columns *)
(* QcColumns; review_time, the entry_review columns, survey_complete,      *)
(* form_version and the other skip_req columns are not carried.            *)
(***************************************************************************)
\* df.columns of the modelled table
QcColumns ==
    <<"activity_group_id", "SiteVisitGlobalID", "record_reviewers", "review_status",
      "review_date", "field_crew", "sampleability", "delete_record", "visit_type",
      "skip_req_flowtracker", "site_visit_notes", "activity_start_date",
      "Characteristic_Name", "Result_Text", "grouping_var", "data_type", "Result_Unit",
      "data_quality_flag", "ysi_probe", "num_result", "str_result", "instrument",
      "project_id">>

\* lines 1094-1100
nullables ==
    {"paper_url1", "paper_url2", "analytical_method_id", "method_detection_limit",
     "review_notes"}

\* lines 1112-1129, the columns that the table carries
non_nullables ==
    <<"record_reviewers", "review_date", "field_crew", "sampleability", "delete_record",
      "project_id", "skip_req_flowtracker">>

\* lines 1215-1227
FLAGS ==
    {"permanently_missing", "not_on_datasheet", "present_not_on_datasheet",
     "present_less_than_ql", "present_greater_than_ql", "nondetect",
     "value_below_mdl_actual_reported", "value_below_mdl_method_limit_reported",
     "value_below_rl_actual_reported", "equipment_malfunction",
     "QA; repeated sample at same location"}

\* lines 1323-1332
PROBES ==
    {"ysi_85", "ysi_63", "ysi_100", "ysi_63_or_85", "ysi_pro_plus", "ysi_pro_dss",
     "calculated_result", "Accumet"}

\* Series.isna() of one cell; the date of a visit is a number and never missing
IsNa(t, c) == c # "activity_start_date" /\ t[c] = NULL

\* problems.activity_group_id without unique(): one entry per row
VisitsOfMutant(problems) == MapSeq(problems, LAMBDA t : t["activity_group_id"])

\* problems.activity_group_id.unique()
VisitsOf(problems) == Unique(MapSeq(problems, LAMBDA t : t["activity_group_id"]))

\* round(len(problems) / len(df) * 100, 2), in hundredths of a percent
Percent(problems, d) == (20000 * Len(problems) + Len(d)) \div (2 * Len(d))

\* for x in problems.activity_group_id.unique()[:n]: print(problems[mask].head(h)),
\* the printed rows by their visit and characteristic
Sample(problems, n, h) ==
    LET ids == VisitsOf(problems)
        first == SubSeq(ids, 1, IF Len(ids) < n THEN Len(ids) ELSE n)
    IN  Flatten(MapSeq(first, LAMBDA x :
            LET rows == SelectSeq(problems, LAMBDA t : t["activity_group_id"] = x)
            IN  MapSeq(SubSeq(rows, 1, IF Len(rows) < h THEN Len(rows) ELSE h),
                       LAMBDA t : <<t["activity_group_id"], t["Characteristic_Name"]>>)))

Report(check, field, pct, rows, visits, sample) ==
    [check |-> check, field |-> field, pct |-> pct, rows |-> rows, visits |-> visits,
     sample |-> sample]

\* lines 1101-1106: the message names the field and nothing else
WarningsA(d) ==
    MapSeq(SelectSeq(QcColumns, LAMBDA c :
               c \notin nullables /\ \A t \in Range(d) : IsNa(t, c)),
           LAMBDA c : Report("a", c, -1, -1, -1, <<>>))

\* lines 1131-1147
WarningsB(d) ==
    Flatten(MapSeq(non_nullables, LAMBDA c :
        LET problems == SelectSeq(d, LAMBDA t :
                            /\ t["review_status"] = "verified"
                            /\ IsNa(t, c)
                            /\ t["delete_record"] # NULL
                            /\ t["delete_record"] # "yes")
        IN  IF Len(problems) > 0
            THEN <<Report("b", c, Percent(problems, d), Len(problems),
                          Len(VisitsOf(problems)), Sample(problems, 2, 2))>>
            ELSE <<>>))

\* lines 1150-1160: the message states the percentage only
WarningsC(d) ==
    LET problems == SelectSeq(d, LAMBDA t :
                        t["data_type"] = "float" /\ t["Result_Unit"] = NULL)
    IN  IF Len(problems) > 0
        THEN <<Report("c", "Result_Unit", Percent(problems, d), -1, -1,
                      Sample(problems, 2, Len(problems)))>>
        ELSE <<>>

\* lines 1166-1167: one row per SiteVisitGlobalID, counted per pair of
\* activity_group_id and SiteVisitGlobalID; the pairs counted more than once
DuplicatedVisits(d) ==
    LET visits == DropDuplicates(d, "SiteVisitGlobalID")
        pairs == Unique(MapSeq(visits, LAMBDA t :
                            <<t["activity_group_id"], t["SiteVisitGlobalID"]>>))
        size(p) == Len(SelectSeq(visits, LAMBDA t :
                            <<t["activity_group_id"], t["SiteVisitGlobalID"]>> = p))
    IN  SelectSeq(pairs, LAMBDA p : size(p) > 1)

\* lines 1168-1177
DuplicateReport(d) ==
    LET problems == DuplicatedVisits(d)
    IN  IF Len(problems) > 0
        THEN <<Report("WARNING: site visits are duplicated in S123", NULL, -1, -1,
                      Len(problems), IF Len(problems) < 100 THEN problems ELSE <<>>)>>
        ELSE <<Report("There are no duplicated site visits!", NULL, -1, -1, -1, <<>>)>>

\* the masks of lines 1182, 1196, 1229, 1253, 1276, 1304, 1334, 1352, 1365 and 1385;
\* a comparison with a missing value is False, isin(...)==False of one is True
QcMask(check, t) ==
    LET verified == t["review_status"] = "verified"
        num == t["num_result"]
        flag == t["data_quality_flag"]
    IN  CASE check = "nutrient" ->
                /\ verified /\ NumLeq(num, "0")
                /\ flag \notin {"present_less_than_ql", "nondetect", "equipment_malfunction",
                                "value_below_mdl_actual_reported"}
                /\ t["grouping_var"] = "NCRN_WQ_WCHEM"
          [] check = "ysi" ->
                /\ verified /\ NumLeq(num, "0") /\ ToFloat(num) # 0
                /\ flag \notin {"present_less_than_ql", "nondetect", "equipment_malfunction"}
                /\ t["grouping_var"] = "NCRN_WQ_WQUALITY"
                /\ t["Characteristic_Name"] # "water_temperature"
          [] check = "flag" -> verified /\ flag \notin FLAGS /\ flag # NULL
          [] check = "ysi_100" ->
                /\ verified
                /\ t["Characteristic_Name"] \in {"conductivity", "tds", "salinity"}
                /\ t["ysi_probe"] = "ysi_100" /\ num # NULL
          [] check = "missing_with_result" ->
                verified /\ flag \in {"not_on_datasheet", "permanently_missing"} /\ num # NULL
          [] check = "result_unflagged" ->
                /\ verified /\ num = NULL
                /\ flag \notin {"not_on_datasheet", "permanently_missing"}
                /\ t["grouping_var"] \in
                       {"NCRN_WQ_WQUANTITY", "NCRN_WQ_WQUALITY", "NCRN_WQ_WCHEM"}
                /\ t["data_type"] = "float"
          [] check = "probe" ->
                /\ verified /\ t["ysi_probe"] \notin PROBES
                /\ t["grouping_var"] = "NCRN_WQ_WQUALITY" /\ t["ysi_probe"] # NULL
          [] check = "discharge_instrument" ->
                /\ verified /\ t["Characteristic_Name"] = "discharge_instrument"
                /\ t["Result_Text"] \notin {"flowtracker_2", "flowtracker", "marsh_mcbirney_2000"}
                /\ t["grouping_var"] = "NCRN_WQ_WQUANTITY"
                /\ t["sampleability"] = "Actively Sampled"
                /\ t["visit_type"] = "Discrete" /\ t["skip_req_flowtracker"] = "no"
          [] check = "notes" ->
                /\ verified /\ t["site_visit_notes"] # NULL
                /\ Contains(t["site_visit_notes"], "{\"Station_Visit_Comment\"")
          [] check = "calculated" ->
                /\ t["activity_start_date"] >= FlagCutoff
                /\ flag = "present_not_on_datasheet"
                /\ t["instrument"] = "calculated_result"

\* the checks of lines 1182-1361 in their order, each with the count of offending
\* rows below which every visit is printed and the count of visits printed otherwise
ResultChecks ==
    <<<<"nutrient", 0, 2>>, <<"ysi", 100, 5>>, <<"flag", 100, 2>>, <<"ysi_100", 100, 2>>,
      <<"missing_with_result", 50, 10>>, <<"result_unflagged", 100, 4>>,
      <<"probe", 0, 2>>, <<"discharge_instrument", 0, 2>>>>

\* lines 1183-1191 and alike: the counts of rows and of visits, then the rows
\* of the printed visits
Advisory(d, c) ==
    LET problems == SelectSeq(d, LAMBDA t : QcMask(c[1], t))
    IN  IF Len(problems) > 0
        THEN <<Report(c[1], NULL, -1, Len(problems), Len(VisitsOf(problems)),
                      Sample(problems,
                             IF Len(problems) < c[2] THEN Len(problems) ELSE c[3],
                             Len(problems)))>>
        ELSE <<>>

\* lines 1366-1381 and 1386-1401: one row per visit; the message states the
\* count of visits only
VisitAdvisory(d, check) ==
    LET problems == DropDuplicates(SelectSeq(d, LAMBDA t : QcMask(check, t)),
                                   "activity_group_id")
    IN  IF Len(problems) > 0
        THEN <<Report(check, NULL, -1, -1, Len(VisitsOf(problems)),
                      Sample(problems, IF Len(problems) < 20 THEN Len(problems) ELSE 20,
                             Len(problems)))>>
        ELSE <<>>

\* line 1365: read_csv gives the float type to a column of the header file
\* without any value, and the .str accessor raises AttributeError on it
NotesAccessorFails(main) ==
    \A r \in Range(main.rows) : r["site_visit_notes"] = NULL

(***************************************************************************)
(* SpecQc: _quality_control on the table of NumQcVisits verified or        *)
(* reviewed visits.  Visit V1 has a row of each category (air temperature, *)
(* discharge instrument, pH, total phosphorus) with freely drawn results,  *)
(* flags and probe; every further visit has one total phosphorus result of *)
(* zero and draws its notes and whether it repeats the activity group of   *)
(* V1.  aux holds the reports printed and the checks evaluated so far.     *)
(***************************************************************************)
NumQcVisits == 2

QcMainCols ==
    <<"activity_group_id", "SiteVisitGlobalID", "record_reviewers", "review_status",
      "site_visit_notes", "delete_record">>

QcVisit(k, g, status, reviewers, notes) ==
    [activity_group_id |-> g, SiteVisitGlobalID |-> "V" \o ToString(k),
     record_reviewers |-> reviewers, review_status |-> status,
     site_visit_notes |-> notes, delete_record |-> "no"]

\* grouping category, data type and unit of the characteristics of the table
QcChars ==
    [air_temperature |-> <<"NCRN_WQ_HABINV", "float", "deg C">>,
     discharge_instrument |-> <<"NCRN_WQ_WQUANTITY", "string", NULL>>,
     ph |-> <<"NCRN_WQ_WQUALITY", "float", "pH">>,
     tp |-> <<"NCRN_WQ_WCHEM", "float", "mg/L">>]

QcRow(v, c, text, flag, probe) ==
    [activity_group_id |-> v["activity_group_id"],
     SiteVisitGlobalID |-> v["SiteVisitGlobalID"],
     record_reviewers |-> v["record_reviewers"], review_status |-> v["review_status"],
     review_date |-> "2020-07-01", field_crew |-> "AB",
     sampleability |-> "Actively Sampled", delete_record |-> v["delete_record"],
     visit_type |-> "Discrete", skip_req_flowtracker |-> "no",
     site_visit_notes |-> v["site_visit_notes"], activity_start_date |-> 20200610,
     Characteristic_Name |-> c, Result_Text |-> text, grouping_var |-> QcChars[c][1],
     data_type |-> QcChars[c][2], Result_Unit |-> QcChars[c][3],
     data_quality_flag |-> flag, ysi_probe |-> probe,
     num_result |-> IF QcChars[c][2] = "float" THEN text ELSE NULL,
     str_result |-> IF QcChars[c][2] = "float" THEN NULL ELSE text,
     instrument |-> probe]

QcNotes == {NULL, "low flow", "{\"Station_Visit_Comment\":\"low flow\"}"}

\* result, probe and flag of the pH row; result and flag of the phosphorus row
QcPh ==
    {<<"7.1", "ysi_85", NULL>>, <<"-1", "my_probe", NULL>>,
     <<"7.1", "calculated_result", "present_not_on_datasheet">>}

QcTp ==
    {<<"0.5", NULL>>, <<"0", NULL>>, <<NULL, NULL>>, <<"0.5", "my_flag">>,
     <<"0.5", "not_on_datasheet">>}

QcFirstVisit(v, di, ph, tp) ==
    <<QcRow(v, "air_temperature", "15.2", NULL, NULL),
      QcRow(v, "discharge_instrument", di, NULL, NULL),
      QcRow(v, "ph", ph[1], ph[3], ph[2]),
      QcRow(v, "tp", tp[1], tp[2], NULL)>>

QcInit(dis, phs, tps) ==
    /\ NoExchange
    /\ tbl_ysi = <<>>
    /\ tbl_grabsample = <<>>
    /\ res = <<>>
    /\ include_deletes = FALSE
    /\ run \in {"dashboard", "exchange"}
    /\ \E status \in {"verified", "in_review"}, reviewers \in {NULL, "AB"},
          notes \in QcNotes, di \in dis, ph \in phs, tp \in tps,
          more \in [2..NumQcVisits ->
                      {TRUE, FALSE} \X {NULL, "{\"Station_Visit_Comment\":\"\"}"}] :
          LET first == QcVisit(1, "G1", status, reviewers, notes)
              others == [i \in 1..(NumQcVisits - 1) |->
                            QcVisit(i + 1,
                                    IF more[i + 1][1] THEN "G1" ELSE "G" \o ToString(i + 1),
                                    "verified", "AB", more[i + 1][2])]
          IN  /\ tbl_main = [cols |-> QcMainCols, rows |-> <<first>> \o others]
              /\ df = NumFirst(QcFirstVisit(first, di, ph, tp)
                               \o MapSeq(others, LAMBDA v : QcRow(v, "tp", "0", NULL, NULL)))
    /\ aux = [log |-> <<>>, evaluated |-> <<>>]
    /\ pc = "qc_start"

InitQc == QcInit({"flowtracker", "tape"}, QcPh, QcTp)

\* the runs followed to their end: the visits are drawn, the results are fixed
InitQcRun == QcInit({"flowtracker"}, {<<"7.1", "ysi_85", NULL>>}, {<<"0.5", NULL>>})

\* lines 1092-1160
QcNulls ==
    /\ pc = "qc_start"
    /\ df' = QualityControl(df)
    /\ aux' = [log |-> aux.log \o WarningsA(df') \o WarningsB(df') \o WarningsC(df'),
               evaluated |-> aux.evaluated \o <<"a", "b", "c">>]
    /\ pc' = "qc_duplicates"
    /\ UNCHANGED <<inputs, outputs>>

\* lines 1162-1177
QcDuplicates ==
    /\ pc = "qc_duplicates"
    /\ aux' = [log |-> aux.log \o DuplicateReport(df),
               evaluated |-> Append(aux.evaluated, "duplicates")]
    /\ pc' = "qc_results"
    /\ UNCHANGED <<df, inputs, outputs>>

\* lines 1179-1361
QcResults ==
    /\ pc = "qc_results"
    /\ aux' = [log |-> aux.log \o Flatten(MapSeq(ResultChecks, LAMBDA c : Advisory(df, c))),
               evaluated |-> aux.evaluated \o MapSeq(ResultChecks, LAMBDA c : c[1])]
    /\ pc' = "qc_notes"
    /\ UNCHANGED <<df, inputs, outputs>>

\* lines 1363-1381
QcNotesCheck ==
    /\ pc = "qc_notes"
    /\ IF NotesAccessorFails(tbl_main)
       THEN pc' = "qc_abort" /\ aux' = aux
       ELSE /\ pc' = "qc_calculated"
            /\ aux' = [log |-> aux.log \o VisitAdvisory(df, "notes"),
                       evaluated |-> Append(aux.evaluated, "notes")]
    /\ UNCHANGED <<df, inputs, outputs>>

\* lines 1383-1401
QcCalculated ==
    /\ pc = "qc_calculated"
    /\ aux' = [log |-> aux.log \o VisitAdvisory(df, "calculated"),
               evaluated |-> Append(aux.evaluated, "calculated")]
    /\ pc' = "qc_return"
    /\ UNCHANGED <<df, inputs, outputs>>

\* line 1403
QcReturn ==
    /\ pc = "qc_return"
    /\ pc' = "qc_done"
    /\ UNCHANGED <<df, aux, inputs, outputs>>

NextQc ==
    \/ QcNulls
    \/ QcDuplicates
    \/ QcResults
    \/ QcNotesCheck
    \/ QcCalculated
    \/ QcReturn

SpecQc == InitQc /\ [][NextQc]_vars

\* the pass is straight-line code: a step that can be taken is taken
SpecQcRun == InitQcRun /\ [][NextQc]_vars /\ WF_vars(NextQc)

\* every check of the pass, in the order of the source
C17_AllChecks ==
    <<"a", "b", "c", "duplicates">> \o MapSeq(ResultChecks, LAMBDA c : c[1])
        \o <<"notes", "calculated">>

\* C17: the quality-control pass never aborts and never short-circuits: on
\* every run it evaluates every advisory check, whatever the earlier checks
\* found, and returns the table.
C17_RunsToCompletion ==
    /\ [](pc # "qc_abort")
    /\ <>(pc = "qc_done" /\ aux.evaluated = C17_AllChecks)

\* two visit records of the header relation share an activity_group_id
C18_HeaderDuplicates ==
    {g \in {r["activity_group_id"] : r \in Range(tbl_main.rows)} :
        Cardinality({r \in Range(tbl_main.rows) : r["activity_group_id"] = g}) > 1}

\* C18: once the duplicate check has run, if two or more visit records of the
\* header relation share an activity_group_id the pass has printed the
\* duplicate-site-visit warning with the number of duplicated visits, and it
\* has printed 'There are no duplicated site visits!' only if no two share one.
C18_DuplicatesReported ==
    "duplicates" \in Range(aux.evaluated) =>
        /\ C18_HeaderDuplicates # {} =>
              \E r \in Range(aux.log) :
                  /\ r.check = "WARNING: site visits are duplicated in S123"
                  /\ r.visits = Cardinality(C18_HeaderDuplicates)
        /\ (\E r \in Range(aux.log) : r.check = "There are no duplicated site visits!")
              => C18_HeaderDuplicates = {}

\* the rows that a check of the results or of the visits finds
C19_Offending(check) == SelectSeq(df, LAMBDA t : QcMask(check, t))

\* the rows that warning (b) finds for a field
C19_NullOffending(c) ==
    SelectSeq(df, LAMBDA t : /\ t["review_status"] = "verified"
                             /\ IsNa(t, c)
                             /\ t["delete_record"] \notin {NULL, "yes"})

C19_Visits(rows) == {t["activity_group_id"] : t \in Range(rows)}

C19_SampleVisits(r) == {s[1] : s \in Range(r.sample)}

C19_ResultChecks == {c[1] : c \in Range(ResultChecks)}

C19_Limits(check) == CHOOSE c \in Range(ResultChecks) : c[1] = check

C19_N(check) ==
    IF check \in C19_ResultChecks THEN C19_Limits(check)[3]
    ELSE IF check \in {"notes", "calculated"} THEN 20
    ELSE 2

RECURSIVE StrReplace(_, _, _)
StrReplace(s, pat, rep) ==
    IF Len(s) < Len(pat) THEN s
    ELSE IF SubSeq(s, 1, Len(pat)) = pat
         THEN rep \o StrReplace(SubSeq(s, Len(pat) + 1, Len(s)), pat, rep)
         ELSE SubSeq(s, 1, 1) \o StrReplace(SubSeq(s, 2, Len(s)), pat, rep)

\* str.strip()
RECURSIVE Strip(_)
Strip(s) ==
    IF Len(s) = 0 THEN s
    ELSE IF SubSeq(s, 1, 1) = " " THEN Strip(SubSeq(s, 2, Len(s)))
    ELSE IF SubSeq(s, Len(s), Len(s)) = " " THEN Strip(SubSeq(s, 1, Len(s) - 1))
    ELSE s

\* sep.join(parts)
RECURSIVE Join(_, _)
Join(parts, sep) ==
    IF Len(parts) = 0 THEN ""
    ELSE IF Len(parts) = 1 THEN parts[1]
    ELSE parts[1] \o sep \o Join(Tail(parts), sep)

\* lines 969-970
Choices(lookup) ==
    DropDuplicates(SelectSeq(lookup, LAMBDA r : r["list_name"] \in {"reviewers", "field_crew"}),
                   "name")

\* lines 975-990: the label of a listed name; of any other name the first
\* word and the initials of the words after it
NameFull(n, choices) ==
    LET found == SelectSeq(choices, LAMBDA r : r["name"] = n)
        words == Split(n, " ")
    IN  IF found # <<>> THEN found[1]["label"]
        ELSE IF Len(words) > 1
             THEN Join([i \in 1..Len(words) |->
                           IF i = 1 THEN words[1] ELSE SubSeq(words[i], 1, 1) \o "."], " ")
             ELSE words[1]

\* lines 963 and 972-993
NameStr(k, choices) ==
    Join(MapSeq(Split(Strip(StrReplace(StrRemove(k, "other"), ",,", ",")), ","),
                LAMBDA n : NameFull(Strip(n), choices)),
         ", ")

\* lines 959-962: the distinct names of the two columns
NamePermutations(d) ==
    ({t["record_reviewers"] : t \in Range(d)} \cup {t["field_crew"] : t \in Range(d)})
        \ {NULL}

\* the orders in which list(set(...)) may hold the names
NameOrders(d) ==
    {o \in [1..Cardinality(NamePermutations(d)) -> NamePermutations(d)] :
        \A i, j \in DOMAIN o : i # j => o[i] # o[j]}

\* lines 995-999: one name after the other, each on the columns as the names
\* before it left them
RECURSIVE DecodeLoop(_, _, _)
DecodeLoop(d, order, choices) ==
    IF order = <<>> THEN d
    ELSE DecodeLoop(
            MapSeq(d, LAMBDA t :
                [t EXCEPT !["record_reviewers"] =
                              IF @ = Head(order) THEN NameStr(Head(order), choices) ELSE @,
                          !["field_crew"] =
                              IF @ = Head(order) THEN NameStr(Head(order), choices) ELSE @]),
            Tail(order), choices)

\* lines 956-1000
DecodeNames(d, lookup, order) == DecodeLoop(d, order, Choices(lookup))

\* the sheet 'choices' of assets.CONTACTS
CONTACTS ==
    <<[list_name |-> "reviewers", name |-> "jdoe", label |-> "John Doe"],
      [list_name |-> "field_crew", name |-> "asmith", label |-> "Ann Smith"],
      [list_name |-> "weather", name |-> "1", label |-> "clear"]>>

\* transform.py 29-50 and utils.py 277: the dashboard table of a decoded table
DashboardTable(decoded, log) ==
    QualityControl(Instrumented(Filtered(NumFirst(CastResultByType(decoded))), log))

\* transform.py 29-55 and utils.py 879-1014: the exchange table of a decoded table
WqpTable(decoded, log, cols, now) ==
    RecodeWqpChars(Crosswalk(
        AddMethodSpeciationName(ActAssigned(WqpQc(DashboardTable(decoded, log)))),
        cols, now))

(***************************************************************************)
(* SpecTwice: one projection, run twice on the same relations, contacts    *)
(* and template.  df holds the table that _decode receives (transform.py   *)
(* 11-28), with the reviewers and the field crew of the visit on every     *)
(* triple; each run draws the order of the names and reads the clock, and  *)
(* appends the file it writes to written.                                  *)
(***************************************************************************)
TwiceReviewers == {"jdoe", "John Doe", "other,Bob Ray"}

AddNames(d, reviewers) ==
    MapSeq(d, LAMBDA t :
        With(With(t, "record_reviewers", reviewers[t["SiteVisitGlobalID"]]),
             "field_crew", "asmith,jdoe"))

InitTwice ==
    /\ tbl_main \in XwalkMains
    /\ tbl_ysi = [cols |-> YsiCols,
                  rows |-> <<RunYsi("Y1", "V1", "no"), RunYsi("Y2", "V2", "no")>>]
    /\ tbl_grabsample = [cols |-> GrabCols,
                         rows |-> <<RunGrab("S1", "V1", "no"), RunGrab("S2", "V2", "no")>>]
    /\ res = RunLog
    /\ include_deletes = FALSE
    /\ run \in {"dashboard", "exchange"}
    /\ example = XwalkKeys
    /\ test_run = FALSE
    /\ \E reviewers \in [{"V1", "V2"} -> TwiceReviewers \cup {NULL}] :
          /\ reviewers["V1"] \in {"jdoe", NULL}
          /\ Len(tbl_main.rows) = 1 => reviewers["V2"] = NULL
          /\ df = AddNames(ApplyDataTypes(Flattened(tbl_main, tbl_ysi, tbl_grabsample, FALSE)),
                           reviewers)
    /\ wqp = <<>>
    /\ written = <<>>
    /\ aux = CONTACTS
    /\ pc = "first_run"

\* utils.py 242-300: dashboard_etl from _decode on
DashboardRun ==
    /\ pc \in {"first_run", "second_run"}
    /\ run = "dashboard"
    /\ \E order \in NameOrders(df) :
          written' = Append(written,
                            [file |-> "dashboard.csv",
                             table |-> DashboardTable(DecodeNames(df, aux, order), res)])
    /\ pc' = IF pc = "first_run" THEN "second_run" ELSE "both_done"
    /\ UNCHANGED <<df, aux, wqp, inputs>>

\* utils.py 868-1028: wqp_wqx from _decode on
ExchangeRun ==
    /\ pc \in {"first_run", "second_run"}
    /\ run = "exchange"
    /\ \E order \in NameOrders(df), now \in Clock :
          wqp' = WqpTable(DecodeNames(df, aux, order), res, ExampleColumns(example), now)
    /\ written' = Append(written, [file |-> "wqp.csv", table |-> wqp'])
    /\ pc' = IF pc = "first_run" THEN "second_run" ELSE "both_done"
    /\ UNCHANGED <<df, aux, inputs>>

NextTwice == DashboardRun \/ ExchangeRun

SpecTwice == InitTwice /\ [][NextTwice]_vars

\* C20: two runs of the dashboard projection, or of the exchange projection,
\* on the same relations and reference tables write the same table, value for
\* value in every column.
C20_SameOutput ==
    Len(written) = 2 => written[1].table = written[2].table

(***************************************************************************)
(* Two properties of the functions above, on SpecInstr and SpecAct         *)
(***************************************************************************)
\* the methods that the history log or the hard-coded era table lists for a
\* characteristic
C29_Listed(c) ==
    {res[i]["Method"] : i \in {j \in DOMAIN res : Lower(res[j]["Parameter"]) = c}}
        \cup {HardCodedRules(df, res)[i].method :
                i \in {j \in DOMAIN HardCodedRules(df, res) :
                          HardCodedRules(df, res)[j].param = c}}

C29_AllListed == UNION {C29_Listed(c) : c \in Range(HardCodedParams)}

\* C29: after instrument resolution no triple carries a method that the
\* history log or the hard-coded era table lists only for another
\* characteristic: an instrument that is a listed method is listed for the
\* triple's own characteristic.
C29_OwnCharacteristic ==
    pc = "instr_done" =>
        \A i \in DOMAIN df :
            (/\ df[i]["instrument"] \in C29_AllListed
             /\ df[i]["instrument"] # df[i]["anc_method"])
                => df[i]["instrument"] \in C29_Listed(df[i]["Characteristic_Name"])

\* C30: _assign_activity_id succeeds on every table whose rows all have a
\* non-null grouping category among the four known ones and a non-null
\* activity_group_id, also when one of the four categories has no row.
C30_SucceedsOnPreconditions ==
    (/\ pc \in {"act_done", "act_abort"}
     /\ \A i \in DOMAIN df : /\ df[i]["grouping_var"] \in Range(LOOKUP)
                             /\ df[i]["activity_group_id"] # NULL)
        => pc = "act_done"
(***************************************************************************)
(* SpecDel: _remove_deletes (transform.py 948-954) applied to a bounded    *)
(* relation with no, one or two delete-indicator columns.                  *)
(***************************************************************************)
DelColumnSets ==
    {<<>>, <<"delete_record">>, <<"delete_increment">>,
     <<"delete_record", "delete_increment">>}

DelRelations ==
    UNION {{[cols |-> <<"GlobalID">> \o dc,
             rows |-> [i \in 1..NumVisits |->
                          [c \in {"GlobalID"} \cup Range(dc) |->
                              IF c = "GlobalID" THEN "V" \o ToString(i) ELSE vals[i][c]]]] :
                vals \in [1..NumVisits -> [Range(dc) -> {NULL, "yes", "no"}]]} :
           dc \in DelColumnSets}

InitDel ==
    /\ NoExchange
    /\ tbl_main \in DelRelations
    /\ tbl_ysi = [cols |-> <<>>, rows |-> <<>>]
    /\ tbl_grabsample = [cols |-> <<>>, rows |-> <<>>]
    /\ res = <<>>
    /\ include_deletes = FALSE
    /\ run = "remove_deletes"
    /\ df = <<>>
    /\ pc = "del_start"
    /\ aux = "none"

\* transform.py 948-954: df is the relation returned
RemoveDeletesCall ==
    /\ pc = "del_start"
    /\ IF DeleteAssertFails(tbl_main, FALSE)
       THEN pc' = "del_abort" /\ aux' = "AssertionError" /\ df' = df
       ELSE IF StrAccessorFails(tbl_main, FALSE)
       THEN pc' = "del_abort" /\ aux' = "AttributeError" /\ df' = df
       ELSE pc' = "del_done" /\ aux' = aux /\ df' = RemoveDeletes(tbl_main).rows
    /\ UNCHANGED <<inputs, outputs>>

NextDel == RemoveDeletesCall

SpecDel == InitDel /\ [][NextDel]_vars

\* C24: _remove_deletes stops with the assertion error unless the relation
\* has exactly one column whose name contains 'delete'; with two such columns
\* (or none) it stops there and returns no filtered relation, and a relation
\* is returned only when there is exactly one such column.
C24_ExactlyOneDeleteColumn ==
    /\ (pc # "del_start" /\ Len(DelCol(tbl_main)) # 1)
           => (pc = "del_abort" /\ aux = "AssertionError" /\ df = <<>>)
    /\ pc = "del_done"
           => /\ Len(DelCol(tbl_main)) = 1
              /\ df = SelectSeq(tbl_main.rows, LAMBDA r : r[DelCol(tbl_main)[1]] # "yes")

C24_Witness ==
    /\ pc = "del_abort"
    /\ aux = "AssertionError"
    /\ Len(DelCol(tbl_main)) = 2
    /\ tbl_main.rows[1]["delete_record"] = "yes"
    /\ tbl_main.rows[2]["delete_increment"] = "no"
\* the review status that the header relation records for the visit of a triple
C21_StatusOfVisit(t) ==
    {v["review_status"] : v \in {w \in Range(tbl_main.rows) :
                                    w["GlobalID"] = t["SiteVisitGlobalID"]}}

\* C21: in an exchange run, from _wqp_qc on, every row of the table is a row
\* of a visit that the header relation records as 'verified', so no row of a
\* visit in review is in it; the table of a completed dashboard run holds rows
\* of every visit that was not removed as deleted, whatever its review status.
C21_ExchangeVerifiedOnly ==
    /\ pc \in {"wqx_qc", "wqx_done", "wqx_abort"} =>
          \A i \in DOMAIN df :
              /\ df[i]["review_status"] = "verified"
              /\ C21_StatusOfVisit(df[i]) = {"verified"}
    /\ pc = "dash_done" =>
          \A v \in Range(tbl_main.rows) :
              (include_deletes \/ ~MarkedDeleted(tbl_main, v["GlobalID"])) =>
                  \E i \in DOMAIN df :
                      /\ df[i]["SiteVisitGlobalID"] = v["GlobalID"]
                      /\ df[i]["review_status"] = v["review_status"]

C21_Witness ==
    /\ pc = "wqx_done"
    /\ tbl_main.rows[2]["review_status"] = "in_review"
    /\ ~MarkedDeleted(tbl_main, "V2")
    /\ tbl_ysi.rows[2]["ParentGlobalID"] = "V2"
    /\ ~MarkedDeleted(tbl_ysi, "Y2")
    /\ df # <<>>
    /\ \A i \in DOMAIN df : df[i]["SiteVisitGlobalID"] = "V1"
\* the columns by which a stage that has run is recognised: _soft_constraints
\* adds result_warning (transform.py 585), _make_instrument_column adds
\* instrument (363), _quality_control adds project_id (1092) and
\* _assign_activity_id adds activity_id (518)
C26_Has(c) == df # <<>> /\ \A i \in DOMAIN df : c \in DOMAIN df[i]

C26_Lacks(c) == \A i \in DOMAIN df : c \notin DOMAIN df[i]

MaxDataRows == 2

DataSites == {"NCRN_PRWI_A", "NCRN_ROCR_B", "NCRN_MONO_C"}

MdSites == <<"NCRN_ANTI_D", "NCRN_PRWI_A", "NCRN_ROCR_B">>

DataRow(site, name, lat) ==
    [MonitoringLocationIdentifier |-> site, MonitoringLocationName |-> name,
     CharacteristicName |-> "pH"] @@ (LatCol :> lat) @@ (LonCol :> "-77.5")

MetaDataOf(sites) ==
    Flatten(MapSeq(SelectSeq(MdSites, LAMBDA s : s \in sites),
                   LAMBDA s : <<MdRow(s, "ANC"), MdRow(s, "pH")>>))

InitSites ==
    /\ NoExchange
    /\ tbl_main = [cols |-> <<>>, rows |-> <<>>]
    /\ tbl_ysi = [cols |-> <<>>, rows |-> <<>>]
    /\ tbl_grabsample = [cols |-> <<>>, rows |-> <<>>]
    /\ include_deletes = FALSE
    /\ run = "wqp_metadata"
    /\ \E n \in 1..MaxDataRows :
          \E sites \in [1..n -> DataSites],
             names \in [1..n -> {"Branch", "Run"}],
             lats \in [1..n -> {"38.5", NULL}] :
                df = [i \in 1..n |-> DataRow(sites[i], names[i], lats[i])]
    /\ \E sites \in SUBSET Range(MdSites) : res = MetaDataOf(sites)
    /\ aux = [md |-> res, template |-> <<>>, lu |-> <<>>, adds |-> <<>>]
    /\ pc = "si_start"

\* lines 749-754
SiteDeleteStep ==
    /\ pc = "si_start"
    /\ aux' = [aux EXCEPT !.md = SitesKept(df, aux.md),
                          !.adds = SiteAdds(df, SitesKept(df, aux.md))]
    /\ pc' = "si_deleted"
    /\ UNCHANGED <<df, inputs, outputs>>

\* lines 757-759
SiteTemplateStep ==
    /\ pc = "si_deleted"
    /\ IF MetadataTemplateFails(aux.md)
       THEN pc' = "si_abort" /\ aux' = aux
       ELSE /\ pc' = "si_adding"
            /\ aux' = [aux EXCEPT !.template = MetadataTemplate(aux.md),
                                  !.lu = ParkLookup(aux.md)]
    /\ UNCHANGED <<df, inputs, outputs>>

\* lines 761-829, one pass of the loop
SiteAddStep ==
    /\ pc = "si_adding"
    /\ aux.adds # <<>>
    /\ IF ParkCodeFails(Head(aux.adds))
       THEN pc' = "si_abort" /\ aux' = aux
       ELSE /\ pc' = pc
            /\ \E typed \in SiteTyped :
                  aux' = [aux EXCEPT
                            !.md = @ \o FilledTemplate(df, aux.template, aux.lu,
                                                       Head(aux.adds), typed),
                            !.adds = Tail(@)]
    /\ UNCHANGED <<df, inputs, outputs>>

\* line 831
SiteReturn ==
    /\ pc = "si_adding"
    /\ aux.adds = <<>>
    /\ pc' = "si_done"
    /\ UNCHANGED <<df, aux, inputs, outputs>>

NextSites == SiteDeleteStep \/ SiteTemplateStep \/ SiteAddStep \/ SiteReturn

SpecSites == InitSites /\ [][NextSites]_vars

C25_DataSites == {df[i]["MonitoringLocationIdentifier"] : i \in DOMAIN df}

C25_SitesIn(md) == {md[i]["SiteCodeWQX"] : i \in DOMAIN md}

\* C25: when the site reconciliation has returned, the site codes of the
\* metadata are the monitoring-location identifiers of the data: no row is
\* left of a metadata site that the data lacks, the rows of the sites that
\* both hold are the rows that were read, and every data site that the
\* metadata lacked has as many rows as the template, all carrying its code.
C25_SitesCongruent ==
    pc = "si_done" =>
        /\ C25_SitesIn(aux.md) = C25_DataSites
        /\ \A s \in C25_SitesIn(res) \ C25_DataSites :
              \A i \in DOMAIN aux.md : aux.md[i]["SiteCodeWQX"] # s
        /\ SelectSeq(aux.md, LAMBDA r : r["SiteCodeWQX"] \in C25_SitesIn(res))
              = SelectSeq(res, LAMBDA r : r["SiteCodeWQX"] \in C25_DataSites)
        /\ \A s \in C25_DataSites \ C25_SitesIn(res) :
              Len(SelectSeq(aux.md, LAMBDA r : r["SiteCodeWQX"] = s)) = Len(aux.template)
        /\ Len(aux.template) > 0

C25_Witness ==
    /\ pc = "si_done"
    /\ C25_SitesIn(res) = {"NCRN_ANTI_D", "NCRN_PRWI_A"}
    /\ C25_DataSites = {"NCRN_PRWI_A", "NCRN_MONO_C"}
    /\ Len(aux.md) = 4
(***************************************************************************)
(* SpecPublish: dashboard_etl and wqp_wqx from the table that their        *)
(* transform steps return to their return, as a dry run or not.  written   *)
(* holds, in order, what the run has written: files, and the feature       *)
(* service that backs the dashboard.  The two functions that               *)
(* dashboard_etl publishes with are described by their effect.             *)
(***************************************************************************)
\* wtb._save_dashboard_csv (called at utils.py 292): the table is saved as csv
SaveDashboardCsv(w, d) == Append(w, [file |-> "dashboard.csv", table |-> d])

\* wtb._load_feature (called at utils.py 293): the feature service is
\* overwritten with the saved file
LoadFeature(w, d) == Append(w, [file |-> "feature service", table |-> d])

\* transform.py 11-55 on relations that it completes on
TransformTable(main, ysi, grab, log) ==
    Instrumented(Filtered(Typed(Flattened(main, ysi, grab, FALSE))), log)

InitPublish ==
    /\ tbl_main \in XwalkMains
    /\ tbl_ysi = [cols |-> YsiCols,
                  rows |-> <<RunYsi("Y1", "V1", "no"), RunYsi("Y2", "V2", "no")>>]
    /\ tbl_grabsample = [cols |-> GrabCols,
                         rows |-> <<RunGrab("S1", "V1", "no"), RunGrab("S2", "V2", "no")>>]
    /\ res = RunLog
    /\ include_deletes = FALSE
    /\ run \in {"dashboard", "exchange"}
    /\ example \in TemplateColumns
    /\ test_run \in BOOLEAN
    /\ df = IF run = "exchange"
            THEN ExchangeTable(tbl_main, tbl_ysi, tbl_grabsample, res)
            ELSE TransformTable(tbl_main, tbl_ysi, tbl_grabsample, res)
    /\ wqp = <<>>
    /\ written = <<>>
    /\ aux = "ok"
    /\ pc = IF run = "exchange" THEN "wqx_done" ELSE "tfm_done"

\* utils.py 279-300: a dry run returns the table; otherwise the csv is saved,
\* the feature service is overwritten with it and True is returned
DashboardPublish ==
    /\ pc = "dash_done"
    /\ IF test_run
       THEN /\ written' = written
            /\ aux' = "df returned"
       ELSE /\ written' = LoadFeature(SaveDashboardCsv(written, df), df)
            /\ aux' = "True returned"
    /\ pc' = "dash_returned"
    /\ UNCHANGED <<df, wqp, inputs>>

NextPublish ==
    \/ DashboardFinish
    \/ DashboardPublish
    \/ WqxSpeciation
    \/ XwalkAssert
    \/ XwalkAssign
    \/ XwalkRecode
    \/ XwalkWrite

SpecPublish == InitPublish /\ [][NextPublish]_vars

C22_Files == [i \in DOMAIN written |-> written[i].file]

\* C22: a dry run publishes nothing: with test_run = TRUE nothing is ever
\* written, dashboard_etl returns the table and wqp_wqx returns the exchange
\* table; with test_run = FALSE dashboard_etl saves the dashboard csv and
\* overwrites the feature service with the table, and wqp_wqx writes the
\* exchange csv and then the metadata csv and returns the exchange table.
C22_DryRunPublishesNothing ==
    /\ test_run => written = <<>>
    /\ (pc = "dash_returned" /\ test_run) => aux = "df returned"
    /\ (pc = "dash_returned" /\ ~test_run) =>
          /\ C22_Files = <<"dashboard.csv", "feature service">>
          /\ written[1].table = df
          /\ written[2].table = df
    /\ pc = "xw_done" => wqp # <<>>
    /\ (pc = "xw_done" /\ ~test_run) =>
          /\ C22_Files = <<"wqp.csv", "wqp_ncrnwater_metadata.csv">>
          /\ written[1].table = wqp
    /\ (pc \notin {"dash_returned", "xw_done", "md_abort"}) => written = <<>>

C22_Witness ==
    /\ pc = "xw_done"
    /\ test_run
    /\ Len(wqp) > 0
    /\ written = <<>>
    /\ Len(tbl_main.rows) = 2
(***************************************************************************)
(* _gather_others (transform.py 1030-1068).  tbl_main holds the table that *)
(* the function receives and aux the table it rewrites, the warnings it    *)
(* prints and its lookup of patterns.                                      *)
(***************************************************************************)
\* line 1042
GatherOthersCols(cols) == SelectSeq(cols, LAMBDA x : Contains(x, "other"))

\* line 1043
GatherEntry(cols) == MapSeq(GatherOthersCols(cols), LAMBDA x : StrReplace(x, "other_", ""))

\* line 1044
GatherRoot(cols) == MapSeq(GatherEntry(cols), LAMBDA x : StrReplace(x, "entry_", ""))

\* lines 1046-1047
GatherMismatches(cols) ==
    SelectSeq(GatherEntry(cols), LAMBDA x : x \notin Range(cols))
        \o SelectSeq(GatherRoot(cols), LAMBDA x : x \notin Range(cols))

\* line 1048
GatherEntries(cols) ==
    SelectSeq(GatherEntry(cols), LAMBDA x : x \notin Range(GatherMismatches(cols)))

\* line 1049
GatherRoots(cols) ==
    SelectSeq(GatherRoot(cols), LAMBDA x : x \notin Range(GatherMismatches(cols)))

\* lines 1054-1059: roots[i] and entries[i] are read for every index of
\* others; a list that the mismatches shortened raises IndexError
GatherLookupFails(cols) ==
    \E i \in 1..Len(GatherOthersCols(cols)) :
        \/ (GatherOthersCols(cols)[i] # "other_location_name" /\ i > Len(GatherRoots(cols)))
        \/ i > Len(GatherEntries(cols))

\* lines 1053-1059
GatherLookup(cols) ==
    [i \in 1..Len(GatherOthersCols(cols)) |->
        [entry |-> GatherEntries(cols)[i],
         other |-> GatherOthersCols(cols)[i],
         root |-> IF GatherOthersCols(cols)[i] = "other_location_name"
                  THEN "ncrn_site_name" ELSE GatherRoots(cols)[i]]]

\* lines 1062-1066 for one pattern
GatherCollapse(tbl, v) ==
    [cols |-> SelectSeq(IF v.root \in Range(tbl.cols) THEN tbl.cols
                        ELSE Append(tbl.cols, v.root),
                        LAMBDA c : c \notin {v.other, v.entry}),
     rows |-> MapSeq(tbl.rows, LAMBDA r :
                 [c \in ((DOMAIN r \cup {v.root}) \ {v.other, v.entry}) |->
                     IF c = v.root
                     THEN IF Contains(r[v.entry], "other") THEN r[v.other] ELSE r[v.entry]
                     ELSE r[c]])]

(***************************************************************************)
(* SpecGather: the function on tables of one row that carry, for each of   *)
(* two patterns, any subset of the three columns of the pattern.           *)
(***************************************************************************)
GatherPatterns == <<"ysi_probe", "lab">>

GatherAllCols ==
    <<"GlobalID", "entry_ysi_probe", "entry_other_ysi_probe", "ysi_probe",
      "entry_lab", "entry_other_lab", "lab">>

GatherTables ==
    {[cols |-> SelectSeq(GatherAllCols, LAMBDA c : c \in cs \cup {"GlobalID"}),
      rows |-> <<[c \in cs \cup {"GlobalID"} |->
                    IF c = "GlobalID" THEN "V1"
                    ELSE IF c \in {"entry_ysi_probe", "entry_lab"} THEN picks[c]
                    ELSE IF c \in {"ysi_probe", "lab"} THEN NULL
                    ELSE "typed " \o c]>>] :
        cs \in SUBSET (Range(GatherAllCols) \ {"GlobalID"}),
        picks \in [{"entry_ysi_probe", "entry_lab"} -> {"other", "choice_a"}]}

InitGather ==
    /\ NoExchange
    /\ tbl_main \in GatherTables
    /\ tbl_ysi = [cols |-> <<>>, rows |-> <<>>]
    /\ tbl_grabsample = [cols |-> <<>>, rows |-> <<>>]
    /\ res = <<>>
    /\ include_deletes = FALSE
    /\ run = "gather_others"
    /\ df = <<>>
    /\ aux = [tbl |-> tbl_main, warnings |-> <<>>, lu |-> <<>>]
    /\ pc = "ga_start"

\* lines 1042-1052
GatherScan ==
    /\ pc = "ga_start"
    /\ aux' = [aux EXCEPT !.warnings = GatherMismatches(aux.tbl.cols)]
    /\ pc' = "ga_scanned"
    /\ UNCHANGED <<df, inputs, outputs>>

\* lines 1053-1059
GatherBuildLookup ==
    /\ pc = "ga_scanned"
    /\ IF GatherLookupFails(aux.tbl.cols)
       THEN pc' = "ga_abort" /\ aux' = aux
       ELSE pc' = "ga_collapse" /\ aux' = [aux EXCEPT !.lu = GatherLookup(aux.tbl.cols)]
    /\ UNCHANGED <<df, inputs, outputs>>

\* lines 1061-1066, one pass of the loop
GatherStep ==
    /\ pc = "ga_collapse"
    /\ aux.lu # <<>>
    /\ aux' = [aux EXCEPT !.tbl = GatherCollapse(aux.tbl, Head(aux.lu)), !.lu = Tail(@)]
    /\ UNCHANGED <<pc, df, inputs, outputs>>

\* line 1068
GatherReturn ==
    /\ pc = "ga_collapse"
    /\ aux.lu = <<>>
    /\ df' = aux.tbl.rows
    /\ pc' = "ga_done"
    /\ UNCHANGED <<aux, inputs, outputs>>

NextGather == GatherScan \/ GatherBuildLookup \/ GatherStep \/ GatherReturn

SpecGather == InitGather /\ [][NextGather]_vars

\* the three columns of pattern x, and those of them that the table received
C23_Columns(x) == {"entry_" \o x, "entry_other_" \o x, x}

C23_Present(x) == C23_Columns(x) \cap Range(tbl_main.cols)

C23_Complete(x) == C23_Present(x) = C23_Columns(x)

\* the pattern has an 'other' column and lacks a partner of it
C23_Offending(x) == ("entry_other_" \o x) \in C23_Present(x) /\ ~C23_Complete(x)

\* C23: when an 'other' column lacks its entry or root partner, the gather
\* step warns and does not fail: it returns, a warning names every absent
\* partner, the columns of the offending pattern are in the returned table
\* with the values received, and every complete pattern is collapsed from its
\* own three columns (root = entry_other where entry contains 'other', else
\* entry; the two entry columns deleted).
C23_WarnsAndContinues ==
    (/\ pc \in {"ga_done", "ga_abort"}
     /\ \E x \in Range(GatherPatterns) : C23_Offending(x))
        => /\ pc = "ga_done"
           /\ \A x \in Range(GatherPatterns) :
                 /\ C23_Offending(x) =>
                       /\ \E i \in DOMAIN aux.warnings :
                             aux.warnings[i] \in C23_Columns(x) \ C23_Present(x)
                       /\ \A c \in C23_Present(x) :
                             /\ c \in Range(aux.tbl.cols)
                             /\ df[1][c] = tbl_main.rows[1][c]
                 /\ C23_Complete(x) =>
                       /\ C23_Columns(x) \cap Range(aux.tbl.cols) = {x}
                       /\ df[1][x] = IF Contains(tbl_main.rows[1]["entry_" \o x], "other")
                                     THEN tbl_main.rows[1]["entry_other_" \o x]
                                     ELSE tbl_main.rows[1]["entry_" \o x]
(***************************************************************************)
(* backup_water (utils.py 49-105) with _backup_make_file_copies (205-216)  *)
(* and _agol_hosted_feature (water_backup.py 88-137).  df holds            *)
(* assets.SURVEY_SOURCE_DIRS with the state of every directory, res the    *)
(* entries that _add_log_entry appends to the job log, written the files   *)
(* downloaded into the backup directory, and aux the backup directory, the *)
(* position of the loops and the content of the hosting service.           *)
(***************************************************************************)
\* utils.py 69, for the clock of the run
dir_ext == "2024-08-07_111830_376335"

\* utils.py 70
newpath == "backup/" \o dir_ext

\* assets.WATER_AGOL_ITEM_ID
in_fc == "item_src"

\* utils.py 152-180
LogEntryOf(src_file, log_dest, log_result) ==
    [log_timestamp |-> dir_ext, src_file |-> src_file, log_dest |-> log_dest,
     log_result |-> log_result]

\* utils.py 211 and shutil.copytree: the copy raises when the source cannot
\* be read and when the destination exists already
CopyTreeFails(d, exists) == d.state # "ok" \/ exists

\* utils.py 213-214: one entry for every name in the source directory
CopyLog(d) ==
    MapSeq(d.files, LAMBDA f : LogEntryOf(d.dir, newpath \o "/" \o f, "success"))

\* water_backup.py 117
ExportName(t) == "ncrn_water_" \o StrReplace(Lower(t), " ", "_") \o "_" \o dir_ext

\* water_backup.py 126 with the tests of the item id only
MayDeleteMutant(hit, item) == hit.itemid # in_fc

\* water_backup.py 126
MayDelete(hit, item) ==
    /\ hit.title # item.title
    /\ hit.itemid # in_fc

\* utils.py 88-91
DownloadTypes(dry) == IF dry THEN <<"CSV">> ELSE <<"CSV", "File Geodatabase">>

\* water_backup.py 132-135
ExportFailure(t) ==
    LogEntryOf(in_fc, newpath \o "/" \o ExportName(t),
               "fail - unable to export " \o t \o " AGOL item in_fc='" \o in_fc \o "'")

(***************************************************************************)
(* SpecBackup: backup_water over up to MaxDirs source directories, each    *)
(* readable or missing, online or not, with a hosting service that holds   *)
(* the source item, an older item of the same title and an unrelated item. *)
(***************************************************************************)
MaxDirs == 2

SourceItem == [itemid |-> in_fc, title |-> "NCRN water"]

InitContent ==
    {SourceItem, [itemid |-> "item_old", title |-> "NCRN water"],
     [itemid |-> "item_other", title |-> "ncrn_water_csv_2023"]}

SourceDir(i, state) ==
    [dir |-> "survey" \o ToString(i), state |-> state,
     files |-> <<"form" \o ToString(i) \o ".xlsx", "media" \o ToString(i)>>]

InitBackup ==
    /\ tbl_main = [cols |-> <<>>, rows |-> <<>>]
    /\ tbl_ysi = [cols |-> <<>>, rows |-> <<>>]
    /\ tbl_grabsample = [cols |-> <<>>, rows |-> <<>>]
    /\ include_deletes = FALSE
    /\ run = "backup_water"
    /\ example = <<>>
    /\ wqp = <<>>
    /\ written = <<>>
    /\ res = <<>>
    /\ test_run \in BOOLEAN
    /\ \E n \in 1..MaxDirs : \E states \in [1..n -> {"ok", "missing"}] :
          df = [i \in 1..n |-> SourceDir(i, states[i])]
    /\ \E online \in BOOLEAN :
          aux = [exists |-> FALSE, copied |-> <<>>, i |-> 1, online |-> online,
                 content |-> InitContent, deleted |-> {}, outcomes |-> <<>>,
                 types |-> DownloadTypes(test_run)]
    /\ pc = "bk_copy"

\* utils.py 78-85 with 205-216, one pass of the loop
BackupCopyDir ==
    /\ pc = "bk_copy"
    /\ aux.i <= Len(df)
    /\ IF CopyTreeFails(df[aux.i], aux.exists)
       THEN /\ res' = Append(res, LogEntryOf(df[aux.i].dir, newpath,
                                             "fail - unable to copy file"))
            /\ aux' = [aux EXCEPT !.i = @ + 1]
       ELSE /\ res' = res \o CopyLog(df[aux.i])
            /\ aux' = [aux EXCEPT !.i = @ + 1, !.exists = TRUE,
                                  !.copied = @ \o MapSeq(df[aux.i].files, LAMBDA f :
                                                    [dir |-> df[aux.i].dir, file |-> f])]
    /\ UNCHANGED <<pc, df, tbl_main, tbl_ysi, tbl_grabsample, include_deletes, run,
                   example, test_run, outputs>>

\* water_backup.py 104-114
AgolConnect ==
    /\ pc = "bk_copy"
    /\ aux.i > Len(df)
    /\ res' = Append(res, LogEntryOf(in_fc, "AGOL connection to in_fc='" \o in_fc \o "'",
                                     IF aux.online THEN "success"
                                     ELSE "fail - unable to connect to AGOL"))
    /\ pc' = "agol_export"
    /\ UNCHANGED <<aux, df, tbl_main, tbl_ysi, tbl_grabsample, include_deletes, run,
                   example, test_run, outputs>>

\* water_backup.py 116-135, one pass of the loop: without a connection item
\* is not bound and the export raises; otherwise the export, the search and
\* the download each succeed or raise, and the search returns any item of
\* the service first
AgolExport ==
    /\ pc = "agol_export"
    /\ aux.types # <<>>
    /\ LET t == Head(aux.types)
           exported == [itemid |-> "item_" \o ExportName(t), title |-> ExportName(t)]
           fail(outcome, content) ==
               /\ res' = Append(res, ExportFailure(t))
               /\ written' = written
               /\ aux' = [aux EXCEPT !.types = Tail(@), !.content = content,
                                     !.outcomes = Append(@, [type |-> t, outcome |-> outcome])]
       IN  IF ~aux.online THEN fail("no_connection", aux.content)
           ELSE \/ fail("export_fails", aux.content)
                \/ fail("no_hit", aux.content \cup {exported})
                \/ fail("download_fails", aux.content \cup {exported})
                \/ \E hit \in aux.content \cup {exported} :
                      /\ written' = Append(written, [file |-> hit.title, type |-> t])
                      /\ IF MayDelete(hit, SourceItem)
                         THEN /\ res' = Append(res, LogEntryOf(in_fc,
                                                  newpath \o "/" \o ExportName(t), "success"))
                              /\ aux' = [aux EXCEPT
                                           !.types = Tail(@),
                                           !.content = (@ \cup {exported}) \ {hit},
                                           !.deleted = @ \cup {hit},
                                           !.outcomes = Append(@, [type |-> t,
                                                                   outcome |-> "deleted"])]
                         ELSE /\ res' = res
                              /\ aux' = [aux EXCEPT
                                           !.types = Tail(@),
                                           !.content = @ \cup {exported},
                                           !.outcomes = Append(@, [type |-> t,
                                                                   outcome |-> "kept"])]
    /\ UNCHANGED <<pc, df, wqp, tbl_main, tbl_ysi, tbl_grabsample, include_deletes, run,
                   example, test_run>>

\* water_backup.py 137 and utils.py 97-105
BackupReturn ==
    /\ pc = "agol_export"
    /\ aux.types = <<>>
    /\ pc' = "bk_done"
    /\ UNCHANGED <<aux, df, inputs, outputs>>

NextBackup == BackupCopyDir \/ AgolConnect \/ AgolExport \/ BackupReturn

SpecBackup == InitBackup /\ [][NextBackup]_vars

C27_Copied(d) == \A k \in DOMAIN d.files :
                    \E j \in DOMAIN aux.copied :
                        aux.copied[j] = [dir |-> d.dir, file |-> d.files[k]]

C27_FailLogged(d) ==
    \E j \in DOMAIN res : /\ res[j].src_file = d.dir
                          /\ res[j].log_result = "fail - unable to copy file"

\* C27: once the loop over the source directories has ended, every readable
\* directory is copied into the backup directory, also one that follows a
\* directory copied before it, and every directory that could not be read has
\* a failed entry in the log and nothing else.
C27_AllCopied ==
    pc \in {"agol_export", "bk_done"} =>
        \A i \in DOMAIN df :
            IF df[i].state = "ok"
            THEN C27_Copied(df[i]) /\ ~C27_FailLogged(df[i])
            ELSE C27_FailLogged(df[i]) /\ ~C27_Copied(df[i])

C28_Failed(o) == o.outcome \in {"no_connection", "export_fails", "no_hit", "download_fails"}

\* C28: the export routine never deletes the source item: every item it
\* deletes has an item id other than the source's and a title other than the
\* source's, and the source item stays in the service; whenever the
\* connection or an export fails, the failure is logged for that download
\* type and the routine goes on: it handles every download type and returns.
C28_SourceNeverDeleted ==
    /\ SourceItem \in aux.content
    /\ \A d \in aux.deleted : d.itemid # in_fc /\ d.title # SourceItem.title
    /\ pc \in {"agol_export", "bk_done"} =>
          /\ ~aux.online =>
                \E j \in DOMAIN res : res[j].log_result = "fail - unable to connect to AGOL"
          /\ \A k \in DOMAIN aux.outcomes :
                C28_Failed(aux.outcomes[k]) =>
                    \E j \in DOMAIN res : res[j] = ExportFailure(aux.outcomes[k].type)
    /\ pc = "bk_done" =>
          [k \in DOMAIN aux.outcomes |-> aux.outcomes[k].type] = DownloadTypes(test_run)

C28_Witness ==
    /\ pc = "bk_done"
    /\ ~test_run
    /\ aux.online
    /\ aux.outcomes = <<[type |-> "CSV", outcome |-> "export_fails"],
                        [type |-> "File Geodatabase", outcome |-> "deleted"]>>
    /\ aux.deleted = {[itemid |-> "item_" \o ExportName("File Geodatabase"),
                       title |-> ExportName("File Geodatabase")]}

====
